---- MODULE Spec2Model ----
(***************************************************************************)
(* Functional (persistent) Hash Array Mapped Trie, width 5 (hamt32).       *)
(*                                                                         *)
(* The heap is a sequence of immutable-after-construction Go objects;      *)
(* a reference is an index into the heap and 0 is nil.  A Hamt value is    *)
(* the pair (root, nentries).  Put and Del are modelled as whole calls,    *)
(* including the copy-up of the path; a call that panics leaves the        *)
(* process aborted.                                                        *)
(*                                                                         *)
(* A uint32 bitmap (nodeMap) is represented by the set of its set bits;    *)
(* hashcodes and hash paths are naturals below 2^30.                       *)
(*                                                                         *)
(* The table code is compressedTable (package hamt32), the leaf code is    *)
(* flatLeaf / collisionLeaf of the width-6 file, which is the leaf code    *)
(* the repository contains; the facade is hamt32_functional.               *)
(***************************************************************************)
EXTENDS Integers, Sequences, FiniteSets, TLC

\* ------------------------------------------------------------------------
\* Program constants
\* ------------------------------------------------------------------------
NBITS32 == 5

TABLE_CAPACITY == 2^NBITS32

MAXDEPTH == 5

\* ------------------------------------------------------------------------
\* Bounds of the model
\* ------------------------------------------------------------------------
MaxOps == 4

\* number of calls the goroutines of the concurrent program make in total
MaxCalls == 3

\* ------------------------------------------------------------------------
\* Keys and the external hash.  The key abstraction supplies Hash30() and
\* equality; the keys below are chosen so that a, b, c share the full 30-bit
\* hash, x shares only the depth-0 index with them and y differs from them
\* only at depth MAXDEPTH.
\* ------------------------------------------------------------------------
Keys == {"a", "b", "c", "x", "y"}

Vals == {1, 2}

\* keys for the tables that grow wide: the n-th of them has the hashcode
\* n - 1, so each takes a slot of its own in the root table
SlotKeys == <<"k00", "k01", "k02", "k03", "k04", "k05", "k06", "k07", "k08",
              "k09", "k10", "k11", "k12", "k13", "k14", "k15", "k16">>

RECURSIVE PathToHash(_)
PathToHash(p) ==
    IF p = <<>> THEN 0 ELSE Head(p) + TABLE_CAPACITY * PathToHash(Tail(p))

Hash30(k) ==
    CASE k \in {"a", "b", "c"} -> PathToHash(<<3, 7, 1, 1, 1, 1>>)
      [] k = "x"               -> PathToHash(<<3, 9, 0, 0, 0, 0>>)
      [] k = "y"               -> PathToHash(<<3, 7, 1, 1, 1, 2>>)
      [] OTHER -> (CHOOSE n \in 1..Len(SlotKeys) : SlotKeys[n] = k) - 1

\* ------------------------------------------------------------------------
\* Bit utilities
\* ------------------------------------------------------------------------
RECURSIVE BitAnd(_, _)
BitAnd(a, b) ==
    IF a = 0 \/ b = 0 THEN 0
    ELSE (a % 2) * (b % 2) + 2 * BitAnd(a \div 2, b \div 2)

RECURSIVE BitOr(_, _)
BitOr(a, b) ==
    IF a = 0 THEN b
    ELSE IF b = 0 THEN a
    ELSE (IF a % 2 = 1 \/ b % 2 = 1 THEN 1 ELSE 0) + 2 * BitOr(a \div 2, b \div 2)

\* uint32(1<<(depth*NBITS32)) - 1
hashPathMask(depth) == 2^(depth * NBITS32) - 1

\* an indexMask that narrows to uint8 after the shift instead of before
indexMask_castAfterShift(depth) ==
    ((2^NBITS32 - 1) * 2^(depth * NBITS32)) % 2^8

\* uint32(uint8(1<<NBITS32)-1) << (depth*NBITS32); for depth <= MAXDEPTH no
\* bit is shifted out of the 32-bit word
indexMask(depth) == (2^NBITS32 - 1) * 2^(depth * NBITS32)

\* (h30 & indexMask(depth)) >> (depth*NBITS32).  The mask selects the
\* NBITS32 contiguous bits from bit depth*NBITS32 on, so the masked and
\* shifted value is the remainder of the shifted hash modulo the field
\* width indexMask(0) + 1.
index(h30, depth) ==
    (h30 \div 2^(depth * NBITS32)) % ((indexMask(depth) \div 2^(depth * NBITS32)) + 1)

\* a buildHashPath that combines with & where the code has |
buildHashPath_and(hashPath, idx, depth) ==
    BitAnd(hashPath, idx * 2^(depth * NBITS32))

\* hashPath | uint32(idx<<(depth*NBITS32))
buildHashPath(hashPath, idx, depth) ==
    BitOr(hashPath, idx * 2^(depth * NBITS32))

\* population count of a bitmap
bitCount32(nodeMap) == Cardinality(nodeMap)

\* ------------------------------------------------------------------------
\* Heap objects
\* ------------------------------------------------------------------------
NIL == 0

\* a flat leaf; ptr tells whether the interface value holds a *flatLeaf
\* (the result of NewFlatLeaf) or a flatLeaf value (a dereferenced copy)
FlatLeafObj(h30, key, val, ptr) ==
    [kind |-> "flatLeaf", hash |-> h30, nodeMap |-> {}, nodes |-> <<>>,
     kvs |-> <<[key |-> key, val |-> val]>>, ptr |-> ptr]

CollisionLeafObj(h30, kvs) ==
    [kind |-> "collisionLeaf", hash |-> h30, nodeMap |-> {}, nodes |-> <<>>,
     kvs |-> kvs, ptr |-> TRUE]

CompressedTableObj(hashPath, nodeMap, nodes) ==
    [kind |-> "compressedTable", hash |-> hashPath, nodeMap |-> nodeMap,
     nodes |-> nodes, kvs |-> <<>>, ptr |-> TRUE]

FullTableObj(hashPath, nodeMap, nodes) ==
    [kind |-> "fullTable", hash |-> hashPath, nodeMap |-> nodeMap,
     nodes |-> nodes, kvs |-> <<>>, ptr |-> TRUE]

IsLeaf(hp, r) == hp[r].kind \in {"flatLeaf", "collisionLeaf"}

IsTable(hp, r) == hp[r].kind \in {"compressedTable", "fullTable"}

\* allocation of a fresh object: the heap grows by one
Alloc(hp, obj) == [heap |-> Append(hp, obj), ref |-> Len(hp) + 1]

hashcode(hp, r) == hp[r].hash

\* NewFlatLeaf returns a *flatLeaf
NewFlatLeaf(hp, h30, key, val) == Alloc(hp, FlatLeafObj(h30, key, val, TRUE))

\* ------------------------------------------------------------------------
\* Sequence helpers (Go slice expressions)
\* ------------------------------------------------------------------------
InsertAt(s, i, e) == SubSeq(s, 1, i) \o <<e>> \o SubSeq(s, i + 1, Len(s))

RemoveAt(s, i) == SubSeq(s, 1, i) \o SubSeq(s, i + 2, Len(s))

ReplaceAt(s, i, e) == [s EXCEPT ![i + 1] = e]

\* ------------------------------------------------------------------------
\* compressedTable (sparse table)
\* ------------------------------------------------------------------------
\* a copy() that also copies the children the table points to, so that the
\* new table shares nothing with the one it was copied from
compressedTable_copy_deep(hp, t) ==
    LET RECURSIVE clone(_, _)
        clone(h, ns) ==
            IF ns = <<>> THEN [heap |-> h, refs |-> <<>>]
            ELSE LET c    == Alloc(h, h[Head(ns)])
                     rest == clone(c.heap, Tail(ns))
                 IN [heap |-> rest.heap, refs |-> <<c.ref>> \o rest.refs]
        cl == clone(hp, hp[t].nodes)
    IN Alloc(cl.heap, CompressedTableObj(hp[t].hash, hp[t].nodeMap, cl.refs))

\* a copy() that hands back the receiver itself, so that set() writes into
\* the table it was called on
compressedTable_copy_alias(hp, t) == [heap |-> hp, ref |-> t]

\* compressedTable.copy: a fresh table whose nodes slice is a copy
compressedTable_copy(hp, t) ==
    Alloc(hp, CompressedTableObj(hp[t].hash, hp[t].nodeMap, hp[t].nodes))

\* newCompressedTable(depth, hashPath, lf): a table with the one child lf
newCompressedTable(hp, depth, hashPath, lf) ==
    LET idx == index(hashPath, depth)
    IN Alloc(hp, CompressedTableObj(BitAnd(hashPath, hashPathMask(depth)),
                                    {idx}, <<lf>>))

\* compressedTable.entries: (idx, node) for idx = 0 .. TABLE_CAPACITY-1
RECURSIVE compressedTable_entriesFrom(_, _, _, _)
compressedTable_entriesFrom(hp, t, i, j) ==
    IF i >= TABLE_CAPACITY THEN <<>>
    ELSE IF i \in hp[t].nodeMap
         THEN <<[idx |-> i, node |-> hp[t].nodes[j + 1]]>>
              \o compressedTable_entriesFrom(hp, t, i + 1, j + 1)
         ELSE compressedTable_entriesFrom(hp, t, i + 1, j)

\* an entries() that lists the occupied slots from the highest to the
\* lowest
compressedTable_entries_descending(hp, t) ==
    LET e == compressedTable_entriesFrom(hp, t, 0, 0)
    IN [n \in 1..Len(e) |-> e[Len(e) + 1 - n]]

compressedTable_entries(hp, t) == compressedTable_entriesFrom(hp, t, 0, 0)

\* a get() whose mask takes in the bit of idx itself, so that the position
\* is one too high
compressedTable_get_maskIncl(hp, t, idx) ==
    IF idx \notin hp[t].nodeMap THEN NIL
    ELSE LET m == 0..idx
             i == bitCount32(hp[t].nodeMap \cap m)
         IN IF i + 1 > Len(hp[t].nodes) THEN NIL ELSE hp[t].nodes[i + 1]

compressedTable_get(hp, t, idx) ==
    IF idx \notin hp[t].nodeMap THEN NIL
    ELSE LET m == 0..(idx - 1)
             i == bitCount32(hp[t].nodeMap \cap m)
         IN hp[t].nodes[i + 1]

\* a downgradeToCompressedTable that sets the bit of an entry's position
\* in ents where the code sets the bit of its slot
downgradeToCompressedTable_byPosition(hp, hashPath, ents) ==
    Alloc(hp, CompressedTableObj(hashPath,
                                 {n - 1 : n \in 1..Len(ents)},
                                 [n \in 1..Len(ents) |-> ents[n].node]))

\* downgradeToCompressedTable(hashPath, ents)
downgradeToCompressedTable(hp, hashPath, ents) ==
    Alloc(hp, CompressedTableObj(hashPath,
                                 {ents[n].idx : n \in 1..Len(ents)},
                                 [n \in 1..Len(ents) |-> ents[n].node]))

\* upgradeToFullTable(hashPath, ents): the dense table with the same
\* slot -> child mapping
upgradeToFullTable(hp, hashPath, ents) ==
    Alloc(hp, FullTableObj(hashPath,
              {ents[n].idx : n \in 1..Len(ents)},
              [s \in 1..TABLE_CAPACITY |->
                 IF \E n \in 1..Len(ents) : ents[n].idx = s - 1
                 THEN ents[CHOOSE n \in 1..Len(ents) : ents[n].idx = s - 1].node
                 ELSE NIL]))

\* a set() that returns the table also when its last child was removed
compressedTable_set_keepEmpty(hp, t, idx, nn) ==
    LET c   == compressedTable_copy(hp, t)
        nt  == c.ref
        hp1 == c.heap
        bitMask == 0..(idx - 1)
        i   == bitCount32(hp[t].nodeMap \cap bitMask)
    IN IF nn # NIL
       THEN IF idx \notin hp[t].nodeMap
            THEN LET hp2 == [hp1 EXCEPT ![nt].nodeMap = @ \cup {idx},
                                        ![nt].nodes = InsertAt(@, i, nn)]
                 IN IF bitCount32(hp2[nt].nodeMap) >= TABLE_CAPACITY \div 2
                    THEN upgradeToFullTable(hp2, hp2[nt].hash,
                                            compressedTable_entries(hp2, nt))
                    ELSE [heap |-> hp2, ref |-> nt]
            ELSE [heap |-> [hp1 EXCEPT ![nt].nodes = ReplaceAt(@, i, nn)],
                  ref |-> nt]
       ELSE IF idx \in hp[t].nodeMap
            THEN LET hp2 == [hp1 EXCEPT ![nt].nodeMap = @ \ {idx},
                                        ![nt].nodes = RemoveAt(@, i)]
                 IN [heap |-> hp2, ref |-> nt]
            ELSE [heap |-> hp1, ref |-> t]

\* a set() that converts the table one child too late
compressedTable_set_lateUpgrade(hp, t, idx, nn) ==
    LET c   == compressedTable_copy(hp, t)
        nt  == c.ref
        hp1 == c.heap
        bitMask == 0..(idx - 1)
        i   == bitCount32(hp[t].nodeMap \cap bitMask)
    IN IF nn # NIL
       THEN IF idx \notin hp[t].nodeMap
            THEN LET hp2 == [hp1 EXCEPT ![nt].nodeMap = @ \cup {idx},
                                        ![nt].nodes = InsertAt(@, i, nn)]
                 IN IF bitCount32(hp2[nt].nodeMap) > TABLE_CAPACITY \div 2
                    THEN upgradeToFullTable(hp2, hp2[nt].hash,
                                            compressedTable_entries(hp2, nt))
                    ELSE [heap |-> hp2, ref |-> nt]
            ELSE [heap |-> [hp1 EXCEPT ![nt].nodes = ReplaceAt(@, i, nn)],
                  ref |-> nt]
       ELSE IF idx \in hp[t].nodeMap
            THEN LET hp2 == [hp1 EXCEPT ![nt].nodeMap = @ \ {idx},
                                        ![nt].nodes = RemoveAt(@, i)]
                 IN IF hp2[nt].nodeMap = {}
                    THEN [heap |-> hp2, ref |-> NIL]
                    ELSE [heap |-> hp2, ref |-> nt]
            ELSE [heap |-> hp1, ref |-> t]

\* a set() that changes the table it is called on instead of a copy
compressedTable_set_inPlace(hp, t, idx, nn) ==
    LET nt  == t
        hp1 == hp
        bitMask == 0..(idx - 1)
        i   == bitCount32(hp[t].nodeMap \cap bitMask)
    IN IF nn # NIL
       THEN IF idx \notin hp[t].nodeMap
            THEN LET hp2 == [hp1 EXCEPT ![nt].nodeMap = @ \cup {idx},
                                        ![nt].nodes = InsertAt(@, i, nn)]
                 IN IF bitCount32(hp2[nt].nodeMap) >= TABLE_CAPACITY \div 2
                    THEN upgradeToFullTable(hp2, hp2[nt].hash,
                                            compressedTable_entries(hp2, nt))
                    ELSE [heap |-> hp2, ref |-> nt]
            ELSE [heap |-> [hp1 EXCEPT ![nt].nodes = ReplaceAt(@, i, nn)],
                  ref |-> nt]
       ELSE IF idx \in hp[t].nodeMap
            THEN LET hp2 == [hp1 EXCEPT ![nt].nodeMap = @ \ {idx},
                                        ![nt].nodes = RemoveAt(@, i)]
                 IN IF hp2[nt].nodeMap = {}
                    THEN [heap |-> hp2, ref |-> NIL]
                    ELSE [heap |-> hp2, ref |-> nt]
            ELSE [heap |-> hp1, ref |-> t]

\* compressedTable.set(idx, nn)
compressedTable_set(hp, t, idx, nn) ==
    LET c   == compressedTable_copy(hp, t)
        nt  == c.ref
        hp1 == c.heap
        bitMask == 0..(idx - 1)
        i   == bitCount32(hp[t].nodeMap \cap bitMask)
    IN IF nn # NIL
       THEN IF idx \notin hp[t].nodeMap
            THEN LET hp2 == [hp1 EXCEPT ![nt].nodeMap = @ \cup {idx},
                                        ![nt].nodes = InsertAt(@, i, nn)]
                 IN IF bitCount32(hp2[nt].nodeMap) >= TABLE_CAPACITY \div 2
                    THEN upgradeToFullTable(hp2, hp2[nt].hash,
                                            compressedTable_entries(hp2, nt))
                    ELSE [heap |-> hp2, ref |-> nt]
            ELSE [heap |-> [hp1 EXCEPT ![nt].nodes = ReplaceAt(@, i, nn)],
                  ref |-> nt]
       ELSE IF idx \in hp[t].nodeMap
            THEN LET hp2 == [hp1 EXCEPT ![nt].nodeMap = @ \ {idx},
                                        ![nt].nodes = RemoveAt(@, i)]
                 IN IF hp2[nt].nodeMap = {}
                    THEN [heap |-> hp2, ref |-> NIL]
                    ELSE [heap |-> hp2, ref |-> nt]
            ELSE [heap |-> hp1, ref |-> t]

\* ------------------------------------------------------------------------
\* fullTable (dense table)
\* ------------------------------------------------------------------------
\* the package variable GradeTables: the policy that converts between the
\* two kinds of table is on
VARIABLE GradeTables

fullTable_copy(hp, t) ==
    Alloc(hp, FullTableObj(hp[t].hash, hp[t].nodeMap, hp[t].nodes))

fullTable_entries(hp, t) ==
    LET F[i \in 0..TABLE_CAPACITY] ==
          IF i = TABLE_CAPACITY THEN <<>>
          ELSE IF i \in hp[t].nodeMap
               THEN <<[idx |-> i, node |-> hp[t].nodes[i + 1]]>> \o F[i + 1]
               ELSE F[i + 1]
    IN F[0]

fullTable_get(hp, t, idx) == hp[t].nodes[idx + 1]

fullTable_set(hp, t, idx, nn) ==
    LET c   == fullTable_copy(hp, t)
        nt  == c.ref
        hp1 == c.heap
    IN IF nn # NIL
       THEN [heap |-> [hp1 EXCEPT ![nt].nodeMap = @ \cup {idx},
                                  ![nt].nodes = ReplaceAt(@, idx, nn)],
             ref |-> nt]
       ELSE IF idx \in hp[t].nodeMap
            THEN LET hp2 == [hp1 EXCEPT ![nt].nodeMap = @ \ {idx},
                                        ![nt].nodes = ReplaceAt(@, idx, NIL)]
                 IN IF hp2[nt].nodeMap = {}
                    THEN [heap |-> hp2, ref |-> NIL]
                    ELSE IF GradeTables
                            /\ bitCount32(hp2[nt].nodeMap) < TABLE_CAPACITY \div 2
                         THEN downgradeToCompressedTable(hp2, hp2[nt].hash,
                                                         fullTable_entries(hp2, nt))
                         ELSE [heap |-> hp2, ref |-> nt]
            ELSE [heap |-> hp1, ref |-> t]

\* ------------------------------------------------------------------------
\* tableI: dynamic dispatch on the table's type
\* ------------------------------------------------------------------------
table_get(hp, t, idx) ==
    IF hp[t].kind = "fullTable" THEN fullTable_get(hp, t, idx)
    ELSE compressedTable_get(hp, t, idx)

table_set(hp, t, idx, nn) ==
    IF hp[t].kind = "fullTable" THEN fullTable_set(hp, t, idx, nn)
    ELSE compressedTable_set(hp, t, idx, nn)

table_entries(hp, t) ==
    IF hp[t].kind = "fullTable" THEN fullTable_entries(hp, t)
    ELSE compressedTable_entries(hp, t)

\* ------------------------------------------------------------------------
\* Leaves.  Every leaf operation returns [heap, ref, val, flag].
\* ------------------------------------------------------------------------
NOVAL == 0

flatLeaf_get(hp, l, key) ==
    IF hp[l].kvs[1].key = key
    THEN [val |-> hp[l].kvs[1].val, found |-> TRUE]
    ELSE [val |-> NOVAL, found |-> FALSE]

\* flatLeaf.put: the flag is true when the value was replaced
flatLeaf_put(hp, l, key, val) ==
    IF hp[l].kvs[1].key = key
    THEN LET n == NewFlatLeaf(hp, Hash30(key), key, val)
         IN [heap |-> n.heap, ref |-> n.ref, val |-> NOVAL, flag |-> TRUE]
    ELSE LET n == Alloc(hp, CollisionLeafObj(hashcode(hp, l),
                          <<hp[l].kvs[1], [key |-> key, val |-> val]>>))
         IN [heap |-> n.heap, ref |-> n.ref, val |-> NOVAL, flag |-> FALSE]

flatLeaf_del(hp, l, key) ==
    IF hp[l].kvs[1].key = key
    THEN [heap |-> hp, ref |-> NIL, val |-> hp[l].kvs[1].val, flag |-> TRUE]
    ELSE [heap |-> hp, ref |-> NIL, val |-> NOVAL, flag |-> FALSE]

collisionLeaf_get(hp, l, key) ==
    LET kvs == hp[l].kvs
    IN IF \E i \in 1..Len(kvs) : kvs[i].key = key
       THEN LET i == CHOOSE j \in 1..Len(kvs) :
                       kvs[j].key = key /\ \A m \in 1..(j - 1) : kvs[m].key # key
            IN [val |-> kvs[i].val, found |-> TRUE]
       ELSE [val |-> NOVAL, found |-> FALSE]

\* collisionLeaf.put: the flag is true when the value was replaced
collisionLeaf_put(hp, l, key, val) ==
    LET kvs == hp[l].kvs
    IN IF \E i \in 1..Len(kvs) : kvs[i].key = key
       THEN LET i == CHOOSE j \in 1..Len(kvs) :
                       kvs[j].key = key /\ \A m \in 1..(j - 1) : kvs[m].key # key
                n == Alloc(hp, CollisionLeafObj(hp[l].hash,
                                                [kvs EXCEPT ![i].val = val]))
            IN [heap |-> n.heap, ref |-> n.ref, val |-> NOVAL, flag |-> TRUE]
       ELSE LET n == Alloc(hp, CollisionLeafObj(hp[l].hash,
                                   Append(kvs, [key |-> key, val |-> val])))
            IN [heap |-> n.heap, ref |-> n.ref, val |-> NOVAL, flag |-> FALSE]

\* a del() without the case for two entries: the leaf left with one entry
\* stays a collision leaf
collisionLeaf_del_noDemote(hp, l, key) ==
    LET kvs  == hp[l].kvs
        keep == SelectSeq(kvs, LAMBDA kv : kv.key # key)
        hit  == {i \in 1..Len(kvs) : kvs[i].key = key}
        n    == Alloc(hp, CollisionLeafObj(hp[l].hash, keep))
    IN [heap |-> n.heap, ref |-> n.ref,
        val |-> IF hit = {} THEN NOVAL
                ELSE kvs[CHOOSE i \in hit : \A j \in hit : j <= i].val,
        flag |-> hit # {}]

collisionLeaf_del(hp, l, key) ==
    LET kvs == hp[l].kvs
    IN IF Len(kvs) = 2
       THEN IF key = kvs[1].key
            THEN LET n == NewFlatLeaf(hp, hp[l].hash, kvs[2].key, kvs[2].val)
                 IN [heap |-> n.heap, ref |-> n.ref, val |-> kvs[1].val, flag |-> TRUE]
            ELSE IF key = kvs[2].key
            THEN LET n == NewFlatLeaf(hp, hp[l].hash, kvs[1].key, kvs[1].val)
                 IN [heap |-> n.heap, ref |-> n.ref, val |-> kvs[2].val, flag |-> TRUE]
            ELSE [heap |-> hp, ref |-> NIL, val |-> NOVAL, flag |-> FALSE]
       ELSE LET keep == SelectSeq(kvs, LAMBDA kv : kv.key # key)
                hit  == {i \in 1..Len(kvs) : kvs[i].key = key}
                n    == Alloc(hp, CollisionLeafObj(hp[l].hash, keep))
            IN [heap |-> n.heap, ref |-> n.ref,
                val |-> IF hit = {} THEN NOVAL
                        ELSE kvs[CHOOSE i \in hit : \A j \in hit : j <= i].val,
                flag |-> hit # {}]

\* leafI: dynamic dispatch on the leaf's type
leaf_get(hp, l, key) ==
    IF hp[l].kind = "flatLeaf" THEN flatLeaf_get(hp, l, key)
    ELSE collisionLeaf_get(hp, l, key)

leaf_put(hp, l, key, val) ==
    IF hp[l].kind = "flatLeaf" THEN flatLeaf_put(hp, l, key, val)
    ELSE collisionLeaf_put(hp, l, key, val)

leaf_del(hp, l, key) ==
    IF hp[l].kind = "flatLeaf" THEN flatLeaf_del(hp, l, key)
    ELSE collisionLeaf_del(hp, l, key)

\* the type assertion oldLeaf.(flatLeaf) succeeds only when the interface
\* holds a flatLeaf value
AssertFlatLeaf(hp, l) == hp[l].kind = "flatLeaf" /\ ~hp[l].ptr

\* ------------------------------------------------------------------------
\* newCompressedTable2(depth, hashPath, leaf1, leaf2)
\* leaf2 is a flatLeaf value: storing it in a table boxes a copy
\* ------------------------------------------------------------------------
\* a newCompressedTable2 that stores leaf1 before leaf2 whatever their
\* slots are
RECURSIVE newCompressedTable2_loop_unordered(_, _, _, _, _, _)
newCompressedTable2_loop_unordered(hp, d, hashPath, tabHashPath, leaf1, leaf2) ==
    IF d > MAXDEPTH
    THEN LET l  == leaf_put(hp, leaf1, hp[leaf2].kvs[1].key, hp[leaf2].kvs[1].val)
             ct == Alloc(l.heap, CompressedTableObj(tabHashPath, {}, <<>>))
             s  == compressedTable_set(ct.heap, ct.ref,
                                       index(hashcode(hp, leaf1), MAXDEPTH), l.ref)
         IN [heap |-> s.heap, ref |-> ct.ref]
    ELSE LET idx1 == index(hashcode(hp, leaf1), d)
             idx2 == index(hashcode(hp, leaf2), d)
         IN IF idx1 # idx2
            THEN Alloc(hp, CompressedTableObj(tabHashPath, {idx1, idx2},
                                              <<leaf1, leaf2>>))
            ELSE LET hashPath2 == buildHashPath(hashPath, idx1, d)
                     sub == newCompressedTable2_loop_unordered(hp, d + 1,
                               hashPath2, hashPath2, leaf1, leaf2)
                 IN Alloc(sub.heap,
                          CompressedTableObj(tabHashPath, {idx1}, <<sub.ref>>))

RECURSIVE newCompressedTable2_loop(_, _, _, _, _, _)
newCompressedTable2_loop(hp, d, hashPath, tabHashPath, leaf1, leaf2) ==
    \* builds the table for depth d whose hashPath field is tabHashPath
    IF d > MAXDEPTH
    THEN \* the loop ended without a break: curTable has no nodes; the
         \* collision leaf is built and curTable.set's result is dropped
         LET l  == leaf_put(hp, leaf1, hp[leaf2].kvs[1].key, hp[leaf2].kvs[1].val)
             ct == Alloc(l.heap, CompressedTableObj(tabHashPath, {}, <<>>))
             s  == compressedTable_set(ct.heap, ct.ref,
                                       index(hashcode(hp, leaf1), MAXDEPTH), l.ref)
         IN [heap |-> s.heap, ref |-> ct.ref]
    ELSE LET idx1 == index(hashcode(hp, leaf1), d)
             idx2 == index(hashcode(hp, leaf2), d)
         IN IF idx1 # idx2
            THEN Alloc(hp, CompressedTableObj(tabHashPath, {idx1, idx2},
                            IF idx1 < idx2 THEN <<leaf1, leaf2>>
                                           ELSE <<leaf2, leaf1>>))
            ELSE LET hashPath2 == buildHashPath(hashPath, idx1, d)
                     sub == newCompressedTable2_loop(hp, d + 1, hashPath2,
                                                     hashPath2, leaf1, leaf2)
                 IN Alloc(sub.heap,
                          CompressedTableObj(tabHashPath, {idx1}, <<sub.ref>>))

newCompressedTable2(hp, depth, hashPath, leaf1, leaf2val) ==
    LET l2 == Alloc(hp, FlatLeafObj(leaf2val.hash, leaf2val.key, leaf2val.val, FALSE))
    IN newCompressedTable2_loop(l2.heap, depth, hashPath,
                                BitAnd(hashPath, hashPathMask(depth)),
                                leaf1, l2.ref)

\* ------------------------------------------------------------------------
\* Hamt facade.  A Hamt value is [root, nentries].
\* ------------------------------------------------------------------------
EMPTY == [root |-> NIL, nentries |-> 0]

IsEmpty(h) == h.root = NIL

\* pathT: the LIFO of the tables passed on the way down, deepest last
newPathT == <<>>

path_push(path, t) == Append(path, t)

path_peek(path) == path[Len(path)]

path_pop(path) == SubSeq(path, 1, Len(path) - 1)

path_isEmpty(path) == path = <<>>

\* Hamt.copyUp(oldTable, newTable, path): returns the heap and the new root
RECURSIVE copyUp(_, _, _, _)
copyUp(hp, oldTable, newTable, path) ==
    IF path_isEmpty(path)
    THEN [heap |-> hp, root |-> newTable]
    ELSE LET depth       == Len(path)
             parentDepth == depth - 1
             oldParent   == path_peek(path)
             parentIdx   == index(hashcode(hp, oldTable), parentDepth)
             np          == table_set(hp, oldParent, parentIdx, newTable)
         IN copyUp(np.heap, oldParent, np.ref, path_pop(path))

\* Hamt.Get(key): [val, found]
RECURSIVE Get_loop(_, _, _, _, _)
Get_loop(hp, key, h30, depth, curTable) ==
    IF depth > MAXDEPTH THEN [val |-> NOVAL, found |-> FALSE]
    ELSE LET idx     == index(h30, depth)
             curNode == table_get(hp, curTable, idx)
         IN IF curNode = NIL THEN [val |-> NOVAL, found |-> FALSE]
            ELSE IF IsLeaf(hp, curNode)
                 THEN IF hashcode(hp, curNode) = h30
                      THEN leaf_get(hp, curNode, key)
                      ELSE [val |-> NOVAL, found |-> FALSE]
                 ELSE Get_loop(hp, key, h30, depth + 1, curNode)

Get(hp, h, key) ==
    IF IsEmpty(h) THEN [val |-> NOVAL, found |-> FALSE]
    ELSE Get_loop(hp, key, Hash30(key), 0, h.root)

\* result of a call that panicked: nothing is returned
Panic(hp, h) ==
    [heap |-> hp, hamt |-> h, val |-> NOVAL, flag |-> FALSE, ok |-> FALSE]

Return(hp, h, val, flag) ==
    [heap |-> hp, hamt |-> h, val |-> val, flag |-> flag, ok |-> TRUE]

\* Hamt.Put(key, val): [heap, hamt, flag (inserted), ok]
RECURSIVE Put_loop(_, _, _, _, _, _, _, _, _)
Put_loop(hp, h, key, val, h30, depth, path, hashPath, curTable) ==
    IF depth > MAXDEPTH
    THEN Return(hp, h, NOVAL, FALSE)
    ELSE
    LET idx     == index(h30, depth)
        curNode == table_get(hp, curTable, idx)
    IN IF curNode = NIL
       THEN LET nl == NewFlatLeaf(hp, h30, key, val)
                nt == table_set(nl.heap, curTable, idx, nl.ref)
                up == copyUp(nt.heap, curTable, nt.ref, path)
            IN Return(up.heap,
                      [root |-> up.root, nentries |-> h.nentries + 1],
                      NOVAL, TRUE)
       ELSE IF IsLeaf(hp, curNode)
       THEN IF hashcode(hp, curNode) = h30
            THEN IF ~AssertFlatLeaf(hp, curNode)
                 THEN Panic(hp, h)
                 ELSE LET lp == leaf_put(hp, curNode, key, val)
                          nt == table_set(lp.heap, curTable, idx, lp.ref)
                          up == copyUp(nt.heap, curTable, nt.ref, path)
                      IN Return(up.heap,
                                [root |-> up.root,
                                 nentries |-> IF lp.flag THEN h.nentries + 1
                                                         ELSE h.nentries],
                                NOVAL, lp.flag)
            ELSE LET hashPath2 == buildHashPath(hashPath, idx, depth)
                     ct == newCompressedTable2(hp, depth + 1, hashPath2, curNode,
                              [hash |-> h30, key |-> key, val |-> val])
                     nt == table_set(ct.heap, curTable, idx, ct.ref)
                     up == copyUp(nt.heap, curTable, nt.ref, path)
                 IN Return(up.heap,
                           [root |-> up.root, nentries |-> h.nentries + 1],
                           NOVAL, TRUE)
       ELSE Put_loop(hp, h, key, val, h30, depth + 1,
                     path_push(path, curTable),
                     buildHashPath(hashPath, idx, depth), curNode)

Put(hp, h, key, val) ==
    LET h30 == Hash30(key)
    IN IF IsEmpty(h)
       THEN LET nl == NewFlatLeaf(hp, h30, key, val)
                nt == newCompressedTable(nl.heap, 0, h30, nl.ref)
            IN Return(nt.heap, [root |-> nt.ref, nentries |-> h.nentries + 1],
                      NOVAL, TRUE)
       ELSE Put_loop(hp, h, key, val, h30, 0, newPathT, 0, h.root)

\* Hamt.Del(key): [heap, hamt, val, flag (deleted), ok]
\* nentries is a uint: the decrement wraps at 0, which takes more than
\* MaxOps + 1 calls to reach and is not represented.
RECURSIVE Del_loop(_, _, _, _, _, _, _)
Del_loop(hp, h, key, h30, depth, path, curTable) ==
    IF depth > MAXDEPTH
    THEN Return(hp, h, NOVAL, FALSE)
    ELSE
    IF curTable = NIL
    THEN Panic(hp, h)         \* curTable.get on a nil tableI
    ELSE
    LET idx     == index(h30, depth)
        curNode == table_get(hp, curTable, idx)
    IN IF curNode = NIL
       THEN Return(hp, h, NOVAL, FALSE)
       ELSE IF IsLeaf(hp, curNode)
       THEN IF hashcode(hp, curNode) # h30
            THEN Return(hp, h, NOVAL, FALSE)
            ELSE LET ld == leaf_del(hp, curNode, key)
                     nt == table_set(ld.heap, curTable, idx, ld.ref)
                     up == copyUp(nt.heap, curTable, nt.ref, path)
                 IN Return(up.heap,
                           [root |-> up.root,
                            nentries |-> IF ld.flag THEN h.nentries - 1
                                                    ELSE h.nentries],
                           ld.val, ld.flag)
       ELSE Del_loop(hp, h, key, h30, depth + 1,
                     path_push(path, curTable), curNode)

Del(hp, h, key) == Del_loop(hp, h, key, Hash30(key), 0, newPathT, h.root)

\* ------------------------------------------------------------------------
\* Garbage collection.  Objects that are reachable from none of the given
\* roots are dropped and the remaining ones are renumbered in the order of a
\* depth-first walk from the roots; addresses are not observable in Go.
\* ------------------------------------------------------------------------
RECURSIVE Reach(_, _)
RECURSIVE ReachList(_, _)
Reach(hp, r) ==
    IF r = NIL THEN <<>> ELSE <<r>> \o ReachList(hp, hp[r].nodes)

ReachList(hp, rs) ==
    IF rs = <<>> THEN <<>>
    ELSE Reach(hp, Head(rs)) \o ReachList(hp, Tail(rs))

RECURSIVE Dedup(_, _)
Dedup(s, seen) ==
    IF s = <<>> THEN <<>>
    ELSE IF Head(s) \in seen THEN Dedup(Tail(s), seen)
         ELSE <<Head(s)>> \o Dedup(Tail(s), seen \cup {Head(s)})

\* Compact(hp, roots): [heap, map] where map[r] is the new address of r
Compact(hp, roots) ==
    LET order == Dedup(ReachList(hp, roots), {})
        live  == {order[i] : i \in 1..Len(order)}
        map   == [r \in live \cup {NIL} |->
                    IF r = NIL THEN NIL
                    ELSE CHOOSE i \in 1..Len(order) : order[i] = r]
    IN [heap |-> [i \in 1..Len(order) |->
                    [hp[order[i]] EXCEPT
                       !.nodes = [n \in 1..Len(@) |-> map[@[n]]]]],
        map  |-> map]

\* the object graph below r, independent of addresses
Graph(hp, r) == Compact(hp, <<r>>).heap

\* ------------------------------------------------------------------------
\* The program: a client that holds one Hamt value and applies Put, Del and
\* Get to it, replacing the value it holds by the returned map.  The map the
\* last call was applied to stays referenced (prev), everything else is
\* garbage.
\* ------------------------------------------------------------------------
VARIABLES
    heap,     \* the Go heap
    hamt,     \* the Hamt value the client holds
    prev,     \* the Hamt value the last call was applied to
    last,     \* the last call: [op, key, val, rval, flag, ok]
    nops,     \* number of Put/Del calls made
    puts      \* history: the pairs put so far, as long as the calls were
              \* Puts of pairwise distinct keys, and then the pairs still
              \* to delete (left), as long as the calls that followed were
              \* Dels of these keys, each once

\* the program with several goroutines (SpecConc)
VARIABLES
    pub,      \* the Hamt values returned so far, in the order of return
    procs     \* the goroutines: the call each is in and its local variables

\* the programs that call the functions of a table or of the hash
\* arithmetic directly (SpecTable, SpecBits)
VARIABLE unit \* the last such call, its arguments and what it returned

vars == <<GradeTables, heap, hamt, prev, last, nops, puts, pub, procs, unit>>

NoUnit == [call |-> "none"]

\* the history of a run that made no call, and of a run whose calls are
\* neither distinct Puts nor distinct Puts followed by their Dels
NoPuts == [valid |-> TRUE, pairs |-> {}, left |-> {}, deleting |-> FALSE]

BadPuts == [valid |-> FALSE, pairs |-> {}, left |-> {}, deleting |-> FALSE]

NoCall == [op |-> "none", key |-> "", val |-> NOVAL, rval |-> NOVAL,
           flag |-> FALSE, ok |-> TRUE]

Init ==
    /\ GradeTables = TRUE
    /\ heap = <<>>
    /\ hamt = EMPTY
    /\ prev = EMPTY
    /\ last = NoCall
    /\ nops = 0
    /\ puts = NoPuts
    /\ pub = <<>>
    /\ procs = <<>>
    /\ unit = NoUnit

\* the process is gone after a panic
Running == last.ok

\* the state after a call on the held map that produced r
Outcome(r) ==
    LET gc == Compact(r.heap, <<hamt.root, r.hamt.root>>)
    IN /\ heap' = gc.heap
       /\ prev' = [hamt EXCEPT !.root = gc.map[@]]
       /\ hamt' = [r.hamt EXCEPT !.root = gc.map[@]]
       /\ UNCHANGED <<GradeTables, pub, procs, unit>>

DoPut(k, v) ==
    /\ Running
    /\ nops < MaxOps
    /\ LET r == Put(heap, hamt, k, v)
       IN /\ Outcome(r)
          /\ last' = [op |-> "Put", key |-> k, val |-> v, rval |-> NOVAL,
                      flag |-> r.flag, ok |-> r.ok]
    /\ nops' = nops + 1
    /\ puts' = IF puts.valid /\ ~puts.deleting
                  /\ \A p \in puts.pairs : p.key # k
               THEN [puts EXCEPT
                       !.pairs = @ \cup {[key |-> k, val |-> v]},
                       !.left = @ \cup {[key |-> k, val |-> v]}]
               ELSE BadPuts

DoDel(k) ==
    /\ Running
    /\ nops < MaxOps
    /\ LET r == Del(heap, hamt, k)
       IN /\ Outcome(r)
          /\ last' = [op |-> "Del", key |-> k, val |-> NOVAL, rval |-> r.val,
                      flag |-> r.flag, ok |-> r.ok]
    /\ nops' = nops + 1
    /\ puts' = IF puts.valid /\ \E p \in puts.left : p.key = k
               THEN [puts EXCEPT
                       !.left = {p \in @ : p.key # k},
                       !.deleting = TRUE]
               ELSE BadPuts

DoGet(k) ==
    /\ Running
    /\ LET r == Get(heap, hamt, k)
       IN /\ Outcome(Return(heap, hamt, r.val, r.found))
          /\ last' = [op |-> "Get", key |-> k, val |-> NOVAL, rval |-> r.val,
                      flag |-> r.found, ok |-> TRUE]
    /\ UNCHANGED <<nops, puts>>

Next ==
    \/ \E k \in Keys, v \in Vals : DoPut(k, v)
    \/ \E k \in Keys : DoDel(k)
    \/ \E k \in Keys : DoGet(k)

Spec == Init /\ [][Next]_vars

\* ------------------------------------------------------------------------
\* Observers used by the properties
\* ------------------------------------------------------------------------
Found(hp, h, k) == Get(hp, h, k).found

\* what Get reports for every key
Content(hp, h) == [k \in Keys |-> Get(hp, h, k)]

\* the leaf the descent for the hashcode h30 ends in, or NIL
RECURSIVE LeafAt_loop(_, _, _, _)
LeafAt_loop(hp, h30, depth, curTable) ==
    IF depth > MAXDEPTH THEN NIL
    ELSE LET curNode == table_get(hp, curTable, index(h30, depth))
         IN IF curNode = NIL THEN NIL
            ELSE IF IsLeaf(hp, curNode)
                 THEN IF hashcode(hp, curNode) = h30 THEN curNode ELSE NIL
                 ELSE LeafAt_loop(hp, h30, depth + 1, curNode)

LeafAt(hp, h, h30) == IF IsEmpty(h) THEN NIL ELSE LeafAt_loop(hp, h30, 0, h.root)

LeafKeys(hp, l) == {hp[l].kvs[i].key : i \in 1..Len(hp[l].kvs)}

\* ------------------------------------------------------------------------
\* Properties
\* ------------------------------------------------------------------------

\* C1: Get after put.  Every Put(k, v) on a reachable map returns a map on
\* which Get(k) reports (v, true).
C1_GetAfterPut ==
    last.op = "Put" =>
        /\ last.ok
        /\ Get(heap, hamt, last.key) = [val |-> last.val, found |-> TRUE]

\* C2: the boolean result of a Put that returns is true iff the key was not
\* present in the map the Put was applied to.
C2_InsertedIffAbsent ==
    (last.op = "Put" /\ last.ok) =>
        (last.flag <=> ~Found(heap, prev, last.key))

\* C3: size accounting.  nentries equals the number of keys for which Get
\* reports present.
C3_SizeAccounting ==
    hamt.nentries = Cardinality({k \in Keys : Found(heap, hamt, k)})

\* C4: Get after del.  Every Del(k) on a reachable map, the empty map
\* included, returns a map on which Get(k) reports absent.
C4_GetAfterDel ==
    last.op = "Del" =>
        /\ last.ok
        /\ ~Found(heap, hamt, last.key)

\* C5: Del on the empty map does not abort and returns the same empty map,
\* no value and deleted? = false.
C5_DelOnEmpty ==
    (last.op = "Del" /\ IsEmpty(prev)) =>
        /\ last.ok
        /\ hamt = prev
        /\ last.rval = NOVAL
        /\ ~last.flag

\* C6: Del of a key that is absent from a non-empty map returns
\* deleted? = false and a map with the same content and the same size.
C6_DelAbsentKeepsMap ==
    (last.op = "Del" /\ ~IsEmpty(prev) /\ ~Found(heap, prev, last.key)) =>
        /\ last.ok
        /\ ~last.flag
        /\ Content(heap, hamt) = Content(heap, prev)
        /\ hamt.nentries = prev.nentries

\* C7: persistence.  A Put or Del leaves the map it was applied to unchanged:
\* its size, IsEmpty, what Get reports for every key, and the object graph
\* below its root are the same after the call as before.
C7_Persistence ==
    [][ last'.op \in {"Put", "Del"} =>
          /\ prev'.nentries = hamt.nentries
          /\ IsEmpty(prev') = IsEmpty(hamt)
          /\ Content(heap', prev') = Content(heap, hamt)
          /\ Graph(heap', prev'.root) = Graph(heap, hamt.root) ]_vars

\* a Put or Del returned a map that differs from the non-empty map it was
\* applied to, and both are held
C7_Witness ==
    /\ last.op \in {"Put", "Del"}
    /\ last.ok
    /\ ~IsEmpty(prev)
    /\ ~IsEmpty(hamt)
    /\ hamt.root # prev.root
    /\ Content(heap, hamt) # Content(heap, prev)

\* C8: full-hash collision.  A Put of a new key whose full hash equals that
\* of a stored key returns a map holding both in one collision leaf, with Get
\* succeeding for both; a Del of one of the two keys of a collision leaf
\* leaves a flat leaf for the survivor, which Get still finds.
C8_FullHashCollision ==
    /\ (/\ last.op = "Put"
        /\ ~Found(heap, prev, last.key)
        /\ \E k2 \in Keys \ {last.key} :
              Hash30(k2) = Hash30(last.key) /\ Found(heap, prev, k2))
       => /\ last.ok
          /\ LET l == LeafAt(heap, hamt, Hash30(last.key))
             IN /\ l # NIL
                /\ heap[l].kind = "collisionLeaf"
                /\ last.key \in LeafKeys(heap, l)
                /\ \A k2 \in Keys :
                      (Hash30(k2) = Hash30(last.key) /\ Found(heap, prev, k2))
                      => k2 \in LeafKeys(heap, l)
          /\ Get(heap, hamt, last.key) = [val |-> last.val, found |-> TRUE]
          /\ \A k2 \in Keys \ {last.key} :
                Get(heap, hamt, k2) = Get(heap, prev, k2)
    /\ (/\ last.op = "Del"
        /\ LET l == LeafAt(heap, prev, Hash30(last.key))
           IN /\ l # NIL
              /\ heap[l].kind = "collisionLeaf"
              /\ Len(heap[l].kvs) = 2
              /\ last.key \in LeafKeys(heap, l))
       => /\ last.ok
          /\ LET l == LeafAt(heap, hamt, Hash30(last.key))
             IN /\ l # NIL
                /\ heap[l].kind = "flatLeaf"
          /\ \A k2 \in Keys \ {last.key} :
                Get(heap, hamt, k2) = Get(heap, prev, k2)

\* C9: Put is total when the slot holds a collision leaf with the key's full
\* hash: it returns, and the returned map holds a collision leaf with the
\* value replaced or the pair appended.
C9_PutOnCollisionLeaf ==
    (/\ last.op = "Put"
     /\ LET l == LeafAt(heap, prev, Hash30(last.key))
        IN l # NIL /\ heap[l].kind = "collisionLeaf")
    => /\ last.ok
       /\ LET old == heap[LeafAt(heap, prev, Hash30(last.key))].kvs
              l   == LeafAt(heap, hamt, Hash30(last.key))
          IN /\ l # NIL
             /\ heap[l].kind = "collisionLeaf"
             /\ IF \E i \in 1..Len(old) : old[i].key = last.key
                THEN /\ Len(heap[l].kvs) = Len(old)
                     /\ \A i \in 1..Len(old) :
                          heap[l].kvs[i] =
                            IF old[i].key = last.key
                            THEN [key |-> last.key, val |-> last.val]
                            ELSE old[i]
                ELSE heap[l].kvs =
                       Append(old, [key |-> last.key, val |-> last.val])

\* the pairs of a set in the fixed order of KeyOrder
KeyOrder == <<"a", "b", "c", "x", "y">>

SortedPairs(pairs) ==
    LET F[i \in 0..Len(KeyOrder)] ==
          IF i = 0 THEN <<>>
          ELSE IF \E p \in pairs : p.key = KeyOrder[i]
               THEN Append(F[i - 1], CHOOSE p \in pairs : p.key = KeyOrder[i])
               ELSE F[i - 1]
    IN F[Len(KeyOrder)]

\* the pairs put one after the other into the empty map
RECURSIVE RunPuts(_, _)
RunPuts(r, ps) ==
    IF ps = <<>> \/ ~r.ok THEN r
    ELSE RunPuts(Put(r.heap, r.hamt, Head(ps).key, Head(ps).val), Tail(ps))

\* C10: order independence.  Pairs with distinct keys put into the empty map
\* in any order yield maps with the same size and the same Get results: the
\* map of the order taken agrees with the map of the fixed order.
C10_OrderIndependence ==
    (puts.valid /\ last.op = "Put") =>
        LET ref == RunPuts(Return(<<>>, EMPTY, NOVAL, FALSE),
                           SortedPairs(puts.pairs))
        IN /\ last.ok
           /\ ref.ok
           /\ hamt.nentries = ref.hamt.nentries
           /\ Content(heap, hamt) = Content(ref.heap, ref.hamt)

\* the value put for k in the run so far
StoredVal(k) == (CHOOSE p \in puts.pairs : p.key = k).val

\* C11: bulk round trip.  While the calls made so far are Puts of pairwise
\* distinct keys followed by Dels of these keys, each once and in any
\* order, every Put returns a map one entry larger, every Del returns a map
\* one entry smaller together with deleted = true and the value that was
\* stored for the key, and once every key is deleted the map is the empty
\* map (nil root, IsEmpty, zero entries).
C11_BulkRoundTrip ==
    puts.valid =>
        /\ last.op = "Put" =>
              /\ last.ok
              /\ hamt.nentries = prev.nentries + 1
        /\ last.op = "Del" =>
              /\ last.ok
              /\ hamt.nentries = prev.nentries - 1
              /\ last.flag
              /\ last.rval = StoredVal(last.key)
        /\ (puts.deleting /\ puts.left = {}) =>
              /\ hamt.root = NIL
              /\ IsEmpty(hamt)
              /\ hamt.nentries = 0

\* nodes and tables of a map, and the new tables of the held map
ReachSet(hp, r) == LET s == Reach(hp, r) IN {s[i] : i \in 1..Len(s)}

TablesOf(hp, r) == {t \in ReachSet(hp, r) : IsTable(hp, t)}

\* the tables met when descending from table t at the given depth along
\* the indices of h30, each with its depth
RECURSIVE PathFrom(_, _, _, _)
PathFrom(hp, t, h30, depth) ==
    IF t = NIL \/ depth > MAXDEPTH THEN {}
    ELSE IF ~IsTable(hp, t) THEN {}
    ELSE {[table |-> t, depth |-> depth]}
         \cup PathFrom(hp, table_get(hp, t, index(h30, depth)), h30, depth + 1)

NewTables == TablesOf(heap, hamt.root) \ ReachSet(heap, prev.root)

\* C12: structural sharing.  After m2 = m1.Put(k, v) or m2 = m1.Del(k)
\* every table of m2 that is not a table of m1 lies on the path from m2's
\* root selected by the indices of k's hash, every child of a table on
\* that path in a slot other than k's is a node of m1, and m2 has at most
\* MAXDEPTH + 2 new tables.  (prev and hamt live in the same heap, so node
\* identity is equality of addresses.)
C12_StructuralSharing ==
    last.op \in {"Put", "Del"} =>
        LET h30  == Hash30(last.key)
            path == PathFrom(heap, hamt.root, h30, 0)
            old  == ReachSet(heap, prev.root) \cup {NIL}
        IN /\ NewTables \subseteq {p.table : p \in path}
           /\ \A p \in path : \A i \in 0..(TABLE_CAPACITY - 1) :
                 i # index(h30, p.depth) => table_get(heap, p.table, i) \in old
           /\ Cardinality(NewTables) <= MAXDEPTH + 2

\* a call that built two or more new tables above a table it shares with
\* the map it was applied to
C12_Witness ==
    /\ last.op \in {"Put", "Del"}
    /\ last.ok
    /\ Cardinality(NewTables) >= 2
    /\ TablesOf(heap, hamt.root) \cap TablesOf(heap, prev.root) # {}

\* number of children of a table, keys stored below a node
NumChildren(hp, t) == Len(table_entries(hp, t))

KeysUnder(hp, t) ==
    UNION {LeafKeys(hp, l) : l \in {n \in ReachSet(hp, t) : IsLeaf(hp, n)}}

\* C13 (I1): no table reachable from the root of the held map has zero
\* children; and after a Del, a table on the key's path of the input map
\* none of whose keys is left in the returned map has no successor in the
\* returned map: the key's path there ends above that table's depth (at a
\* nil root when the table was the root).
C13_NoEmptyTable ==
    /\ \A t \in TablesOf(heap, hamt.root) :
          /\ NumChildren(heap, t) >= 1
          /\ heap[t].nodeMap # {}
    /\ last.op = "Del" =>
          LET h30 == Hash30(last.key)
          IN \A p \in PathFrom(heap, prev.root, h30, 0) :
               (\A k \in KeysUnder(heap, p.table) : ~Found(heap, hamt, k))
               => \A q \in PathFrom(heap, hamt.root, h30, 0) :
                    q.depth < p.depth

\* a Del that emptied a chain of two or more tables and returned the
\* empty map
C13_Witness ==
    /\ last.op = "Del"
    /\ last.ok
    /\ last.flag
    /\ Cardinality(TablesOf(heap, prev.root)) >= 2
    /\ hamt.root = NIL

\* leaves below a node, and I2 for the table t at depth d
LeavesUnder(hp, t) == {n \in ReachSet(hp, t) : IsLeaf(hp, n)}

RECURSIVE HashPathHolds(_, _, _, _)
HashPathHolds(hp, t, d, hashPath) ==
    LET ents == table_entries(hp, t)
    IN /\ hashcode(hp, t) = hashPath
       /\ \A l \in LeavesUnder(hp, t) :
             hashcode(hp, l) % 2^(d * NBITS32) = hashcode(hp, t)
       /\ \A n \in 1..Len(ents) :
             IF IsLeaf(hp, ents[n].node)
             THEN index(hashcode(hp, ents[n].node), d) = ents[n].idx
             ELSE HashPathHolds(hp, ents[n].node, d + 1,
                                buildHashPath(hashPath, ents[n].idx, d))

\* C14 (I2): in the held map the root has hashPath 0; a table at depth d
\* has as hashPath the low d*NBITS32 bits of the hashcode of every leaf
\* below it; the child in slot i of a table at depth d is either a leaf
\* whose index at depth d is i, or a table whose hashPath is the parent's
\* hashPath extended with i at depth d, for which the same holds at depth
\* d + 1.
C14_HashPath ==
    hamt.root # NIL => HashPathHolds(heap, hamt.root, 0, 0)

\* a Put or Del returned a map with a table at depth 2 or deeper that has a
\* table child and a hashPath other than 0
C14_Witness ==
    /\ last.op \in {"Put", "Del"}
    /\ last.ok
    /\ \E p \in PathFrom(heap, hamt.root, Hash30("a"), 0) :
          /\ p.depth >= 2
          /\ hashcode(heap, p.table) # 0
          /\ \E n \in ReachSet(heap, p.table) \ {p.table} : IsTable(heap, n)

\* C15: in the held map every collision leaf holds two or more entries
\* with pairwise distinct keys, every flat leaf holds one, and the full
\* masked hash of every key in a leaf is the leaf's hashcode (so two keys
\* that differ in their full hash are never in one leaf); and a Del of one
\* of the two keys of a collision leaf leaves a flat leaf with the other
\* entry in its place.
C15_CollisionLeaf ==
    /\ \A l \in LeavesUnder(heap, hamt.root) :
          LET kvs == heap[l].kvs
          IN /\ \A i \in 1..Len(kvs) : Hash30(kvs[i].key) = hashcode(heap, l)
             /\ \A i, j \in 1..Len(kvs) : kvs[i].key = kvs[j].key => i = j
             /\ heap[l].kind = "collisionLeaf" => Len(kvs) >= 2
             /\ heap[l].kind = "flatLeaf" => Len(kvs) = 1
    /\ last.op = "Del" =>
          LET old == LeafAt(heap, prev, Hash30(last.key))
              new == LeafAt(heap, hamt, Hash30(last.key))
          IN (/\ old # NIL
              /\ heap[old].kind = "collisionLeaf"
              /\ Len(heap[old].kvs) = 2
              /\ last.key \in LeafKeys(heap, old))
             => /\ new # NIL
                /\ heap[new].kind = "flatLeaf"
                /\ heap[new].kvs =
                     SelectSeq(heap[old].kvs, LAMBDA kv : kv.key # last.key)

\* a Del took one of the two keys out of a collision leaf
C15_Witness ==
    /\ last.op = "Del"
    /\ last.ok
    /\ LET old == LeafAt(heap, prev, Hash30(last.key))
       IN /\ old # NIL
          /\ heap[old].kind = "collisionLeaf"
          /\ last.key \in LeafKeys(heap, old)

\* ------------------------------------------------------------------------
\* The program with a wide root table: TestMain sets GradeTables, then
\* initialize() puts the first keys one after the other, each into a slot
\* of its own, up to one below the number at which a table is converted;
\* then the client goes on with Put, Del and Get of keys around that
\* number.
\* ------------------------------------------------------------------------
LoadKeys == SubSeq(SlotKeys, 1, TABLE_CAPACITY \div 2 - 1)

GrowKeys == {"k13", "k14", "k15", "k16"}

InitGrow ==
    /\ GradeTables \in BOOLEAN
    /\ heap = <<>>
    /\ hamt = EMPTY
    /\ prev = EMPTY
    /\ last = NoCall
    /\ nops = 0
    /\ puts = BadPuts
    /\ pub = <<>>
    /\ procs = <<>>
    /\ unit = NoUnit

LoadDone == nops > 0 \/ hamt.nentries >= Len(LoadKeys)

\* initialize(): the next key of the load
DoLoad ==
    /\ ~LoadDone
    /\ LET k == LoadKeys[hamt.nentries + 1]
           r == Put(heap, hamt, k, 1)
       IN /\ Outcome(r)
          /\ last' = [op |-> "Put", key |-> k, val |-> 1, rval |-> NOVAL,
                      flag |-> r.flag, ok |-> r.ok]
    /\ UNCHANGED <<nops, puts>>

NextGrow ==
    \/ DoLoad
    \/ LoadDone /\ \E k \in GrowKeys, v \in Vals : DoPut(k, v)
    \/ LoadDone /\ \E k \in GrowKeys : DoDel(k)
    \/ LoadDone /\ \E k \in GrowKeys : DoGet(k)

SpecGrow == InitGrow /\ [][NextGrow]_vars

\* C16: sparse-only policy.  With GradeTables off (and FullTableInit off:
\* the root is built by newCompressedTable) every table of the held map is
\* a sparse table, also after the set that brings a table to
\* TABLE_CAPACITY/2 children.
C16_SparseOnly ==
    ~GradeTables =>
        \A t \in TablesOf(heap, hamt.root) : heap[t].kind = "compressedTable"

\* C17 (I6): graded policy.  With GradeTables on, every sparse table of the
\* held map and of the map the last call was applied to has at most
\* TABLE_CAPACITY/2 - 1 children and every dense table at least
\* TABLE_CAPACITY/2, so a Put or Del that moves the number of children
\* across TABLE_CAPACITY/2 returns the other kind of table.
C17_GradedPolicy ==
    GradeTables =>
        \A t \in TablesOf(heap, hamt.root) \cup TablesOf(heap, prev.root) :
            /\ heap[t].kind = "compressedTable"
                  => NumChildren(heap, t) <= TABLE_CAPACITY \div 2 - 1
            /\ heap[t].kind = "fullTable"
                  => NumChildren(heap, t) >= TABLE_CAPACITY \div 2

\* a Del took a dense root below the threshold and returned a sparse one
C17_Witness ==
    /\ GradeTables
    /\ last.op = "Del"
    /\ last.ok
    /\ heap[prev.root].kind = "fullTable"
    /\ heap[hamt.root].kind = "compressedTable"
    /\ NumChildren(heap, hamt.root) = TABLE_CAPACITY \div 2 - 1

\* the child in slot i of the root table
RootChild(hp, h, i) == IF IsEmpty(h) THEN NIL ELSE table_get(hp, h.root, i)

\* C18: representation round trip.  With GradeTables on, after every Put
\* and Del that returns, Get on the returned map reports for the call's
\* key what the call dictates and for every other key what it reported on
\* the input map, and every slot of the root other than the key's holds
\* the same child as before, also when the call converted the root table.
C18_RoundTrip ==
    (GradeTables /\ last.op \in {"Put", "Del"} /\ last.ok) =>
        /\ \A n \in 1..Len(SlotKeys) :
              Get(heap, hamt, SlotKeys[n]) =
                IF SlotKeys[n] # last.key
                THEN Get(heap, prev, SlotKeys[n])
                ELSE IF last.op = "Put"
                     THEN [val |-> last.val, found |-> TRUE]
                     ELSE [val |-> NOVAL, found |-> FALSE]
        /\ \A i \in 0..(TABLE_CAPACITY - 1) :
              i # index(Hash30(last.key), 0)
              => RootChild(heap, hamt, i) = RootChild(heap, prev, i)

\* the third call converted the root table again: a Put that promoted it
\* after a promotion and a demotion
C18_Witness ==
    /\ GradeTables
    /\ last.op = "Put"
    /\ last.ok
    /\ nops >= 3
    /\ heap[prev.root].kind = "compressedTable"
    /\ heap[hamt.root].kind = "fullTable"

\* ------------------------------------------------------------------------
\* The program with several goroutines.  Each goroutine calls Put, Del or
\* Get on any of the maps returned so far (pub, which starts with EMPTY);
\* a call runs one step at a time: one iteration of the descent loop of
\* Put, Del or Get, one level of copyUp, and the return.  The heap is
\* shared.  A panic in one goroutine ends the program.
\* ------------------------------------------------------------------------
ProcOrder == <<"p", "q">>

Procs == {ProcOrder[n] : n \in 1..Len(ProcOrder)}

ConcKeys == {"a", "x", "y"}

\* the local variables of a goroutine that is in no call
Idle ==
    [pc |-> "idle", op |-> "none", key |-> "", val |-> NOVAL, in |-> EMPTY,
     depth |-> 0, curTable |-> NIL, path |-> newPathT, hashPath |-> 0,
     oldTable |-> NIL, newTable |-> NIL,
     out |-> EMPTY, flag |-> FALSE, rval |-> NOVAL]

InitConc ==
    /\ GradeTables = TRUE
    /\ heap = <<>>
    /\ hamt = EMPTY
    /\ prev = EMPTY
    /\ last = NoCall
    /\ nops = 0
    /\ puts = BadPuts
    /\ pub = <<EMPTY>>
    /\ procs = [p \in Procs |-> Idle]
    /\ unit = NoUnit

Panicked == \E p \in Procs : procs[p].pc = "panic"

\* the call returns: [heap, loc]
ToRet(hp, l, h, rval, flag) ==
    [heap |-> hp,
     loc  |-> [l EXCEPT !.pc = "ret", !.out = h, !.rval = rval, !.flag = flag]]

ToPanic(hp, l) == [heap |-> hp, loc |-> [l EXCEPT !.pc = "panic"]]

\* the call goes on with copyUp(oldTable, newTable, path)
ToCopyUp(hp, l, newTable, nentries, rval, flag) ==
    [heap |-> hp,
     loc  |-> [l EXCEPT !.pc = "copyUp", !.oldTable = l.curTable,
                        !.newTable = newTable,
                        !.out = [root |-> NIL, nentries |-> nentries],
                        !.rval = rval, !.flag = flag]]

\* one iteration of the loop of Hamt.Put (the first one with the test for
\* the empty map before it)
Put_step(hp, l) ==
    LET h   == l.in
        h30 == Hash30(l.key)
    IN IF IsEmpty(h)
       THEN LET nl == NewFlatLeaf(hp, h30, l.key, l.val)
                nt == newCompressedTable(nl.heap, 0, h30, nl.ref)
            IN ToRet(nt.heap, l, [root |-> nt.ref, nentries |-> h.nentries + 1],
                     NOVAL, TRUE)
       ELSE IF l.depth > MAXDEPTH
       THEN ToRet(hp, l, h, NOVAL, FALSE)
       ELSE
       LET idx     == index(h30, l.depth)
           curNode == table_get(hp, l.curTable, idx)
       IN IF curNode = NIL
          THEN LET nl == NewFlatLeaf(hp, h30, l.key, l.val)
                   nt == table_set(nl.heap, l.curTable, idx, nl.ref)
               IN ToCopyUp(nt.heap, l, nt.ref, h.nentries + 1, NOVAL, TRUE)
          ELSE IF IsLeaf(hp, curNode)
          THEN IF hashcode(hp, curNode) = h30
               THEN IF ~AssertFlatLeaf(hp, curNode)
                    THEN ToPanic(hp, l)
                    ELSE LET lp == leaf_put(hp, curNode, l.key, l.val)
                             nt == table_set(lp.heap, l.curTable, idx, lp.ref)
                         IN ToCopyUp(nt.heap, l, nt.ref,
                                     IF lp.flag THEN h.nentries + 1
                                                ELSE h.nentries,
                                     NOVAL, lp.flag)
               ELSE LET hashPath2 == buildHashPath(l.hashPath, idx, l.depth)
                        ct == newCompressedTable2(hp, l.depth + 1, hashPath2,
                                 curNode,
                                 [hash |-> h30, key |-> l.key, val |-> l.val])
                        nt == table_set(ct.heap, l.curTable, idx, ct.ref)
                    IN ToCopyUp(nt.heap, l, nt.ref, h.nentries + 1, NOVAL, TRUE)
          ELSE [heap |-> hp,
                loc  |-> [l EXCEPT !.depth = l.depth + 1,
                                   !.path = path_push(l.path, l.curTable),
                                   !.hashPath = buildHashPath(l.hashPath, idx,
                                                              l.depth),
                                   !.curTable = curNode]]

\* one iteration of the loop of Hamt.Del
Del_step(hp, l) ==
    LET h   == l.in
        h30 == Hash30(l.key)
    IN IF l.depth > MAXDEPTH
       THEN ToRet(hp, l, h, NOVAL, FALSE)
       ELSE IF l.curTable = NIL
       THEN ToPanic(hp, l)
       ELSE
       LET idx     == index(h30, l.depth)
           curNode == table_get(hp, l.curTable, idx)
       IN IF curNode = NIL
          THEN ToRet(hp, l, h, NOVAL, FALSE)
          ELSE IF IsLeaf(hp, curNode)
          THEN IF hashcode(hp, curNode) # h30
               THEN ToRet(hp, l, h, NOVAL, FALSE)
               ELSE LET ld == leaf_del(hp, curNode, l.key)
                        nt == table_set(ld.heap, l.curTable, idx, ld.ref)
                    IN ToCopyUp(nt.heap, l, nt.ref,
                                IF ld.flag THEN h.nentries - 1 ELSE h.nentries,
                                ld.val, ld.flag)
          ELSE [heap |-> hp,
                loc  |-> [l EXCEPT !.depth = l.depth + 1,
                                   !.path = path_push(l.path, l.curTable),
                                   !.curTable = curNode]]

\* one iteration of the loop of Hamt.Get (the first one with the test for
\* the empty map before it)
Get_step(hp, l) ==
    LET h   == l.in
        h30 == Hash30(l.key)
    IN IF IsEmpty(h) \/ l.depth > MAXDEPTH
       THEN ToRet(hp, l, h, NOVAL, FALSE)
       ELSE
       LET idx     == index(h30, l.depth)
           curNode == table_get(hp, l.curTable, idx)
       IN IF curNode = NIL
          THEN ToRet(hp, l, h, NOVAL, FALSE)
          ELSE IF IsLeaf(hp, curNode)
          THEN IF hashcode(hp, curNode) = h30
               THEN LET g == leaf_get(hp, curNode, l.key)
                    IN ToRet(hp, l, h, g.val, g.found)
               ELSE ToRet(hp, l, h, NOVAL, FALSE)
          ELSE [heap |-> hp,
                loc  |-> [l EXCEPT !.depth = l.depth + 1,
                                   !.curTable = curNode]]

\* a copyUp that takes the parent's slot from the depth of the child
\* instead of the depth of the parent
copyUp_step_childDepth(hp, l) ==
    IF path_isEmpty(l.path)
    THEN [heap |-> hp,
          loc  |-> [l EXCEPT !.pc = "ret", !.out.root = l.newTable]]
    ELSE LET depth       == Len(l.path)
             oldParent   == path_peek(l.path)
             parentIdx   == index(hashcode(hp, l.oldTable), depth)
             np          == table_set(hp, oldParent, parentIdx, l.newTable)
         IN [heap |-> np.heap,
             loc  |-> [l EXCEPT !.oldTable = oldParent, !.newTable = np.ref,
                                !.path = path_pop(l.path)]]

\* one level of Hamt.copyUp
copyUp_step(hp, l) ==
    IF path_isEmpty(l.path)
    THEN [heap |-> hp,
          loc  |-> [l EXCEPT !.pc = "ret", !.out.root = l.newTable]]
    ELSE LET depth       == Len(l.path)
             parentDepth == depth - 1
             oldParent   == path_peek(l.path)
             parentIdx   == index(hashcode(hp, l.oldTable), parentDepth)
             np          == table_set(hp, oldParent, parentIdx, l.newTable)
         IN [heap |-> np.heap,
             loc  |-> [l EXCEPT !.oldTable = oldParent, !.newTable = np.ref,
                                !.path = path_pop(l.path)]]

\* the addresses a goroutine holds
LocRefs(l) ==
    <<l.in.root, l.curTable, l.oldTable, l.newTable, l.out.root>> \o l.path

Remap(l, map) ==
    [l EXCEPT !.in.root = map[@], !.curTable = map[@], !.oldTable = map[@],
              !.newTable = map[@], !.out.root = map[@],
              !.path = [n \in 1..Len(@) |-> map[@[n]]]]

\* the state after a step that left the heap hp, the returned maps pb and
\* the goroutines ps
Commit(hp, pb, ps) ==
    LET F[n \in 0..Len(ProcOrder)] ==
          IF n = 0 THEN [m \in 1..Len(pb) |-> pb[m].root]
          ELSE F[n - 1] \o LocRefs(ps[ProcOrder[n]])
        gc == Compact(hp, F[Len(ProcOrder)])
    IN /\ heap' = gc.heap
       /\ pub' = [m \in 1..Len(pb) |-> [pb[m] EXCEPT !.root = gc.map[@]]]
       /\ procs' = [p \in Procs |-> Remap(ps[p], gc.map)]

\* goroutine p calls op on the n-th returned map
Call(p, op, k, v, n) ==
    /\ ~Panicked
    /\ procs[p].pc = "idle"
    /\ nops < MaxCalls
    /\ procs' = [procs EXCEPT ![p] =
                   [Idle EXCEPT !.pc = "loop", !.op = op, !.key = k, !.val = v,
                                !.in = pub[n], !.curTable = pub[n].root]]
    /\ nops' = nops + 1
    /\ UNCHANGED <<GradeTables, heap, hamt, prev, last, puts, pub, unit>>

\* goroutine p takes the next step of its call
Step(p) ==
    /\ ~Panicked
    /\ procs[p].pc \in {"loop", "copyUp"}
    /\ LET l == procs[p]
           r == IF l.pc = "copyUp" THEN copyUp_step(heap, l)
                ELSE IF l.op = "Put" THEN Put_step(heap, l)
                ELSE IF l.op = "Del" THEN Del_step(heap, l)
                ELSE Get_step(heap, l)
       IN Commit(r.heap, pub, [procs EXCEPT ![p] = r.loc])
    /\ UNCHANGED <<GradeTables, hamt, prev, last, nops, puts, unit>>

\* the call of goroutine p returns; the map a Put or Del returns is from
\* now on a returned map
Ret(p) ==
    /\ ~Panicked
    /\ procs[p].pc = "ret"
    /\ LET l == procs[p]
           known == \E n \in 1..Len(pub) : pub[n] = l.out
       IN Commit(heap,
                 IF l.op \in {"Put", "Del"} /\ ~known THEN Append(pub, l.out)
                                                      ELSE pub,
                 [procs EXCEPT ![p] = Idle])
    /\ UNCHANGED <<GradeTables, hamt, prev, last, nops, puts, unit>>

NextConc ==
    \/ \E p \in Procs, k \in ConcKeys, n \in 1..Len(pub) :
          \/ Call(p, "Put", k, 1, n)
          \/ Call(p, "Del", k, NOVAL, n)
          \/ Call(p, "Get", k, NOVAL, n)
    \/ \E p \in Procs : Step(p)
    \/ \E p \in Procs : Ret(p)

SpecConc == InitConc /\ [][NextConc]_vars

\* what the call of l returns when it runs alone on the heap hp
Alone(hp, l) ==
    IF l.op = "Put" THEN Put(hp, l.in, l.key, l.val)
    ELSE IF l.op = "Del" THEN Del(hp, l.in, l.key)
    ELSE LET g == Get(hp, l.in, l.key) IN Return(hp, l.in, g.val, g.found)

SameAsAlone(hp, l) ==
    LET r == Alone(hp, l)
    IN /\ (l.pc = "panic") = ~r.ok
       /\ r.ok => /\ l.flag = r.flag
                   /\ l.rval = r.val
                   /\ l.out.nentries = r.hamt.nentries
                   /\ Graph(hp, l.out.root) = Graph(r.heap, r.hamt.root)

\* C19: interleaved calls.  No step of any goroutine changes a table or
\* leaf reachable from a map that was returned before the step (the graph
\* below every returned map is the same after the step as before), and a
\* call that has reached its return or its panic has the result it has
\* when it runs alone on its input map.
C19_Interleaving ==
    [][ /\ \A n \in 1..Len(pub) :
             /\ n <= Len(pub')
             /\ pub'[n].nentries = pub[n].nentries
             /\ Graph(heap', pub'[n].root) = Graph(heap, pub[n].root)
        /\ \A p \in Procs :
             procs'[p].pc \in {"ret", "panic"}
             => SameAsAlone(heap', procs'[p]) ]_vars

\* two goroutines are both in copyUp, on maps that share nodes
C19_Witness ==
    \E p, q \in Procs :
        /\ p # q
        /\ procs[p].pc = "copyUp"
        /\ procs[q].pc = "copyUp"
        /\ ReachSet(heap, procs[p].in.root)
              \cap ReachSet(heap, procs[q].in.root) # {}

\* ------------------------------------------------------------------------
\* The 64-bit variant (package hamt): 6 bits per level, 60-bit hashcodes.
\* The hashcodes of the keys of the model are below 2^30, so every bit from
\* bit 30 on is 0; the operators below use this where the code shifts by 30
\* or more.
\* ------------------------------------------------------------------------
NBITS == 6

MAXDEPTH64 == 9

Keys64 == {"a", "b", "x", "k01"}

\* hash64(key) & sixtyBitMask
hash60of(k) == Hash30(k)

\* hash & hashPathMask(depth)
makeHashPath(depth, hash) ==
    IF depth * NBITS >= 30 THEN hash ELSE hash % 2^(depth * NBITS)

hashPathEqual(depth, a, b) == makeHashPath(depth, a) = makeHashPath(depth, b)

hash60Equal(a, b) == a = b

\* A uint64 below 2^60 as two words of 30 bits, <<hi, lo>>; the shifts keep
\* the 60 bits, which is all that the hashcodes and masks of depths up to
\* MAXDEPTH64 occupy.
WORD == 2^30

U60(hi, lo) == <<hi, lo>>

Hi(x) == x[1]

Lo(x) == x[2]

\* x << n
Shl60(x, n) ==
    IF n >= 60 THEN U60(0, 0)
    ELSE IF n >= 30
    THEN U60((Lo(x) % 2^(60 - n)) * 2^(n - 30), 0)
    ELSE U60((Hi(x) % 2^(30 - n)) * 2^n + Lo(x) \div 2^(30 - n),
             (Lo(x) % 2^(30 - n)) * 2^n)

\* x >> n
Shr60(x, n) ==
    IF n >= 60 THEN U60(0, 0)
    ELSE IF n >= 30
    THEN U60(0, Hi(x) \div 2^(n - 30))
    ELSE U60(Hi(x) \div 2^n, (Hi(x) % 2^n) * 2^(30 - n) + Lo(x) \div 2^n)

\* a & b
And60(a, b) == U60(BitAnd(Hi(a), Hi(b)), BitAnd(Lo(a), Lo(b)))

\* an idxMask with the five bits of the 32-bit variant
idxMask_fiveBits(depth) == Shl60(U60(0, 2^NBITS32 - 1), depth * NBITS)

\* uint64(uint8(1<<NBITS) - 1) << (depth * NBITS)
idxMask(depth) == Shl60(U60(0, (2^NBITS % 2^8) - 1), depth * NBITS)

\* uint((hash & idxMask(depth)) >> (depth*NBITS)) for a hash of 60 bits
index60(hash, depth) ==
    Shr60(And60(hash, idxMask(depth)), depth * NBITS)

\* index(hash, depth) for a hash below 2^30
index64(hash, depth) == Lo(index60(U60(0, hash), depth))

\* x - 1 in a uint64, for x below 2^60, as <<top four bits, high word, low
\* word>>: the difference wraps to 2^64 - 1 at x = 0
Dec64(x) ==
    IF Lo(x) > 0 THEN <<0, Hi(x), Lo(x) - 1>>
    ELSE IF Hi(x) > 0 THEN <<0, Hi(x) - 1, WORD - 1>>
    ELSE <<2^4 - 1, WORD - 1, WORD - 1>>

\* the test that guards buildHashPath of the 64-bit variant,
\* (hashPath&(1<<(depth*NBITS)) - 1) > 0: & binds tighter than -, so one is
\* taken from hashPath & (1 << (depth*NBITS)), not from the shifted bit
buildHashPath64_panics(hashPath, depth) ==
    Dec64(And60(hashPath, Shl60(U60(0, 1), depth * NBITS))) # <<0, 0, 0>>

\* what buildHashPath(hashPath, depth, idx) of the 64-bit variant returns
\* when it does not panic: hashPath & uint64(idx<<(depth*NBITS))
buildHashPath64(hashPath, depth, idx) ==
    And60(hashPath, Shl60(U60(0, idx), depth * NBITS))

CompressedTable64Obj(hashPath, depth, nodeMap, nodes) ==
    [kind |-> "compressedTable", hash |-> hashPath, depth |-> depth,
     nodeMap |-> nodeMap, nodes |-> nodes, kvs |-> <<>>, ptr |-> TRUE]

\* NewFlatLeaf returns a flatLeaf value; storing it boxes a copy
NewFlatLeaf64(hp, hash, key, val) ==
    Alloc(hp, FlatLeafObj(hash, key, val, FALSE))

NewCompressedTable(hp, depth, hashPath, lf) ==
    Alloc(hp, CompressedTable64Obj(hashPath, depth,
                                   {index64(hashcode(hp, lf), depth)}, <<lf>>))

compressedTable64_copy(hp, t) ==
    Alloc(hp, CompressedTable64Obj(hp[t].hash, hp[t].depth, hp[t].nodeMap,
                                   hp[t].nodes))

compressedTable64_get(hp, t, hash) ==
    LET idx == index64(hash, hp[t].depth)
    IN IF idx \notin hp[t].nodeMap THEN NIL
       ELSE hp[t].nodes[Cardinality(hp[t].nodeMap \cap 0..(idx - 1)) + 1]

\* compressedTable.set: nt.nodeMap &= bit on an empty slot
compressedTable64_set(hp, t, hash, newNode) ==
    LET c   == compressedTable64_copy(hp, t)
        nt  == c.ref
        idx == index64(hash, hp[t].depth)
        i   == Cardinality(hp[t].nodeMap \cap 0..(idx - 1))
    IN IF idx \notin hp[t].nodeMap
       THEN [heap |-> [c.heap EXCEPT ![nt].nodeMap = @ \cap {idx},
                                     ![nt].nodes = InsertAt(@, i, newNode)],
             ref  |-> nt]
       ELSE [heap |-> [c.heap EXCEPT ![nt].nodes = ReplaceAt(@, i, newNode)],
             ref  |-> nt]

\* NewCompressedTable2: the table for depth d with the given hashPath
RECURSIVE NewCompressedTable2_loop(_, _, _, _, _, _)
NewCompressedTable2_loop(hp, d, hashPath, tabHashPath, leaf1, leaf2) ==
    IF d >= MAXDEPTH64
    THEN \* d == MAXDEPTH: the last table was given no nodes; the collision
         \* leaf is built and the result of curTable.set is dropped
         LET l  == leaf_put(hp, leaf1, hp[leaf2].kvs[1].key, hp[leaf2].kvs[1].val)
             ct == Alloc(l.heap, CompressedTable64Obj(tabHashPath, d, {}, <<>>))
             st == compressedTable64_set(ct.heap, ct.ref, hashcode(l.heap, l.ref),
                                         l.ref)
         IN [heap |-> st.heap, ref |-> ct.ref]
    ELSE LET idx1 == index64(hashcode(hp, leaf1), d)
             idx2 == index64(hashcode(hp, leaf2), d)
         IN IF idx1 # idx2
            THEN \* nodeMap &= 1 << idx1; nodeMap &= 1 << idx2 on a map of 0
                 Alloc(hp, CompressedTable64Obj(tabHashPath, d, {},
                             IF idx1 < idx2 THEN <<leaf1, leaf2>>
                                            ELSE <<leaf2, leaf1>>))
            ELSE LET sh  == (d + 1) * NBITS
                     \* hashPath & uint64(idx1 << ((d+1)*NBITS))
                     sub == IF sh >= 30 THEN 0
                            ELSE BitAnd(hashPath, (idx1 % 2^(30 - sh)) * 2^sh)
                     nt  == NewCompressedTable2_loop(hp, d + 1, hashPath, sub,
                                                     leaf1, leaf2)
                 IN \* make([]nodeI, 2) and then append(nodes, newTable)
                    Alloc(nt.heap, CompressedTable64Obj(tabHashPath, d, {idx1},
                                                       <<NIL, NIL, nt.ref>>))

NewCompressedTable2(hp, depth, hashPath, leaf1, leaf2val) ==
    LET l2 == NewFlatLeaf64(hp, leaf2val.hash, leaf2val.key, leaf2val.val)
    IN NewCompressedTable2_loop(l2.heap, depth, hashPath, hashPath, leaf1, l2.ref)

\* Hamt.copyUp: [heap, hamt, ok]
RECURSIVE copyUp64(_, _, _, _, _)
copyUp64(hp, h, oldTable, newTable, path) ==
    IF path_isEmpty(path)
    THEN IF h.root # oldTable
         THEN [heap |-> hp, hamt |-> h, ok |-> FALSE]
         ELSE [heap |-> hp, hamt |-> [root |-> newTable, nentries |-> 0],
               ok |-> TRUE]
    ELSE LET oldParent == path_peek(path)
             np == compressedTable64_set(hp, oldParent, hashcode(hp, oldTable),
                                         newTable)
         IN copyUp64(np.heap, h, oldParent, np.ref, path_pop(path))

copyUpLeaf(hp, h, oldLeaf, newLeaf, path) ==
    IF path_isEmpty(path)
    THEN [heap |-> hp, hamt |-> h, ok |-> FALSE]
    ELSE LET oldTable == path_peek(path)
             nt == compressedTable64_set(hp, oldTable, hashcode(hp, oldLeaf),
                                         newLeaf)
         IN copyUp64(nt.heap, h, oldTable, nt.ref, path_pop(path))

\* Hamt.Get of the 64-bit variant: [val, found]
RECURSIVE Get64_loop(_, _, _, _, _)
Get64_loop(hp, key, hash60, depth, curNode) ==
    IF curNode = NIL \/ depth > MAXDEPTH64
    THEN [val |-> NOVAL, found |-> FALSE]
    ELSE IF IsLeaf(hp, curNode)
    THEN IF hashPathEqual(depth, hash60, hashcode(hp, curNode))
         THEN leaf_get(hp, curNode, key)
         ELSE [val |-> NOVAL, found |-> FALSE]
    ELSE Get64_loop(hp, key, hash60, depth + 1,
                    compressedTable64_get(hp, curNode, hash60))

Get64(hp, h, key) ==
    IF IsEmpty(h) THEN [val |-> NOVAL, found |-> FALSE]
    ELSE Get64_loop(hp, key, hash60of(key), 0,
                    compressedTable64_get(hp, h.root, hash60of(key)))

\* Hamt.Put of the 64-bit variant.  The named result newHamt is Hamt{nil, 0}
\* from the first line on; only the branch for the empty map assigns its
\* root, the results of h.copyUp and newHamt.copyUpLeaf are dropped.
RECURSIVE Put64_loop(_, _, _, _, _, _, _, _)
Put64_loop(hp, h, key, val, hash60, depth, path, curTable) ==
    IF depth >= MAXDEPTH64
    THEN Return(hp, EMPTY, NOVAL, FALSE)
    ELSE
    LET curNode == compressedTable64_get(hp, curTable, hash60)
    IN IF curNode = NIL
       THEN LET nl == NewFlatLeaf64(hp, hash60, key, val)
                nt == compressedTable64_set(nl.heap, curTable, hash60, nl.ref)
                up == copyUp64(nt.heap, h, curTable, nt.ref, path)
            IN IF up.ok THEN Return(up.heap, EMPTY, NOVAL, TRUE)
                        ELSE Panic(hp, h)
       ELSE IF IsLeaf(hp, curNode)
       THEN IF hash60Equal(hashcode(hp, curNode), hash60)
            THEN LET lp == leaf_put(hp, curNode, key, val)
                     up == copyUpLeaf(lp.heap, EMPTY, curNode, lp.ref,
                                      path_push(path, curTable))
                 IN IF up.ok THEN Return(up.heap, EMPTY, NOVAL, lp.flag)
                             ELSE Panic(hp, h)
            ELSE LET ct == NewCompressedTable2(hp, depth,
                              makeHashPath(depth, hash60), curNode,
                              [hash |-> hash60, key |-> key, val |-> val])
                     nt == compressedTable64_set(ct.heap, curTable, hash60, ct.ref)
                     up == copyUp64(nt.heap, h, curTable, nt.ref, path)
                 IN IF up.ok THEN Return(up.heap, EMPTY, NOVAL, TRUE)
                             ELSE Panic(hp, h)
       ELSE Put64_loop(hp, h, key, val, hash60, depth + 1,
                       path_push(path, curTable), curNode)

Put64(hp, h, key, val) ==
    LET hash60 == hash60of(key)
    IN IF IsEmpty(h)
       THEN LET nl == NewFlatLeaf64(hp, hash60, key, val)
                nt == NewCompressedTable(nl.heap, 0, hash60, nl.ref)
            IN Return(nt.heap, [root |-> nt.ref, nentries |-> 0], NOVAL, TRUE)
       ELSE Put64_loop(hp, h, key, val, hash60, 0, newPathT, h.root)

\* Hamt.Del of the 64-bit variant: return Hamt{nil, 0}, nil, false
Del64(hp, h, key) == Return(hp, EMPTY, NOVAL, FALSE)

\* the client of the 64-bit variant
DoPut64(k, v) ==
    /\ Running
    /\ nops < MaxOps
    /\ LET r == Put64(heap, hamt, k, v)
       IN /\ Outcome(r)
          /\ last' = [op |-> "Put", key |-> k, val |-> v, rval |-> NOVAL,
                      flag |-> r.flag, ok |-> r.ok]
    /\ nops' = nops + 1
    /\ UNCHANGED puts

DoDel64(k) ==
    /\ Running
    /\ nops < MaxOps
    /\ LET r == Del64(heap, hamt, k)
       IN /\ Outcome(r)
          /\ last' = [op |-> "Del", key |-> k, val |-> NOVAL, rval |-> r.val,
                      flag |-> r.flag, ok |-> r.ok]
    /\ nops' = nops + 1
    /\ UNCHANGED puts

DoGet64(k) ==
    /\ Running
    /\ LET r == Get64(heap, hamt, k)
       IN /\ Outcome(Return(heap, hamt, r.val, r.found))
          /\ last' = [op |-> "Get", key |-> k, val |-> NOVAL, rval |-> r.val,
                      flag |-> r.found, ok |-> TRUE]
    /\ UNCHANGED <<nops, puts>>

Next64 ==
    \/ \E k \in Keys64, v \in Vals : DoPut64(k, v)
    \/ \E k \in Keys64 : DoDel64(k)
    \/ \E k \in Keys64 : DoGet64(k)

Spec64 == Init /\ [][Next64]_vars

\* C20: put/get contract of the 64-bit variant.  Every Put(k, v) on a
\* reachable map, empty or not, returns a map on which Get(k) reports
\* (v, true) and on which every other key that the input map reports as
\* found is reported with the same value.
C20_PutGet64 ==
    last.op = "Put" =>
        /\ last.ok
        /\ Get64(heap, hamt, last.key) = [val |-> last.val, found |-> TRUE]
        /\ \A k \in Keys64 \ {last.key} :
              Get64(heap, prev, k).found
              => Get64(heap, hamt, k) = Get64(heap, prev, k)

\* C21: Del of the 64-bit variant.  For a map on which Get reports k as
\* found, Del(k) returns deleted = true, the value stored for k, and a map
\* on which k is absent and every other key is reported as before; for a
\* map on which k is absent it returns deleted = false and the map it was
\* applied to.
C21_Del64 ==
    last.op = "Del" =>
        /\ last.ok
        /\ IF Get64(heap, prev, last.key).found
           THEN /\ last.flag
                /\ last.rval = Get64(heap, prev, last.key).val
                /\ ~Get64(heap, hamt, last.key).found
                /\ \A k \in Keys64 \ {last.key} :
                      Get64(heap, hamt, k) = Get64(heap, prev, k)
           ELSE /\ ~last.flag
                /\ last.rval = NOVAL
                /\ hamt = prev

\* ------------------------------------------------------------------------
\* Properties of the width-5 program, continued
\* ------------------------------------------------------------------------

\* C22: frame of a write on the other keys.  Every Put(k, v) and Del(k) on
\* a reachable map returns a map on which Get(k2) reports, for every key
\* k2 other than k, what it reports on the map the call was applied to;
\* the keys of the model include one with k's full hash, one that shares
\* k's indices down to the deepest level and one that shares only the
\* first.
C22_FrameOtherKeys ==
    last.op \in {"Put", "Del"} =>
        /\ last.ok
        /\ \A k2 \in Keys \ {last.key} :
              Get(heap, hamt, k2) = Get(heap, prev, k2)

\* ------------------------------------------------------------------------
\* The program that works on one table: it builds a sparse table with
\* newCompressedTable or newCompressedTable2, then calls set(idx, node),
\* set(idx, nil) and the conversion of its entries() back into a sparse
\* table on the table it holds, keeping the table each call returned.
\* unit.before is the table the last call was applied to; unit.slots
\* records for every slot the node most recently set there (its object
\* graph, <<>> for none).
\* ------------------------------------------------------------------------
TableSlots == {0, 3, 4, 31}

NodeKeys == {"a", "x"}

\* the arguments of newCompressedTable2: depth and the keys of the leaves
TwoLeafArgs ==
    {<<0, "a", "x">>, <<1, "x", "a">>, <<1, "a", "y">>, <<5, "y", "a">>,
     <<1, "a", "b">>, <<5, "b", "a">>}

AllSlots == 0..(TABLE_CAPACITY - 1)

NoSlots == [i \in AllSlots |-> <<>>]

NoTable ==
    [call |-> "none", idx |-> 0, depth |-> 0, keys |-> <<>>,
     before |-> NIL, table |-> NIL, slots |-> NoSlots]

InitTable ==
    /\ GradeTables = TRUE
    /\ heap = <<>>
    /\ hamt = EMPTY
    /\ prev = EMPTY
    /\ last = NoCall
    /\ nops = 0
    /\ puts = BadPuts
    /\ pub = <<>>
    /\ procs = <<>>
    /\ unit = NoTable

\* the state after the call returned the table t in the heap hp
TableOutcome(hp, call, idx, depth, keys, t, slots) ==
    LET gc == Compact(hp, <<unit.table, t>>)
    IN /\ heap' = gc.heap
       /\ unit' = [call |-> call, idx |-> idx, depth |-> depth, keys |-> keys,
                   before |-> gc.map[unit.table], table |-> gc.map[t],
                   slots |-> slots]
       /\ UNCHANGED <<GradeTables, hamt, prev, last, nops, puts, pub, procs>>

HoldsSparse == unit.table # NIL /\ heap[unit.table].kind = "compressedTable"

\* newCompressedTable(0, h30, NewFlatLeaf(h30, k, 1))
TNew(k) ==
    /\ unit.table = NIL
    /\ LET nl == NewFlatLeaf(heap, Hash30(k), k, 1)
           t  == newCompressedTable(nl.heap, 0, Hash30(k), nl.ref)
       IN TableOutcome(t.heap, "new", index(Hash30(k), 0), 0, <<k>>, t.ref,
                       [NoSlots EXCEPT ![index(Hash30(k), 0)] =
                                          Graph(nl.heap, nl.ref)])

\* newCompressedTable2(depth, hashPath, leaf of k1, flatLeaf of k2), with
\* the hashPath of the depth indices above the table
TNew2(depth, k1, k2) ==
    /\ unit.table = NIL
    /\ LET nl == NewFlatLeaf(heap, Hash30(k1), k1, 1)
           t  == newCompressedTable2(nl.heap, depth,
                    BitAnd(Hash30(k1), hashPathMask(depth)), nl.ref,
                    [hash |-> Hash30(k2), key |-> k2, val |-> 2])
       IN TableOutcome(t.heap, "new2", 0, depth, <<k1, k2>>, t.ref,
                       [i \in AllSlots |->
                          Graph(t.heap, compressedTable_get(t.heap, t.ref, i))])

\* t.set(idx, NewFlatLeaf(h30, k, 1))
TSet(idx, k) ==
    /\ HoldsSparse
    /\ LET nl == NewFlatLeaf(heap, Hash30(k), k, 1)
           r  == compressedTable_set(nl.heap, unit.table, idx, nl.ref)
       IN TableOutcome(r.heap, "set", idx, unit.depth, <<k>>, r.ref,
                       [unit.slots EXCEPT ![idx] = Graph(nl.heap, nl.ref)])

\* t.set(idx, nil)
TClear(idx) ==
    /\ HoldsSparse
    /\ LET r == compressedTable_set(heap, unit.table, idx, NIL)
       IN TableOutcome(r.heap, "clear", idx, unit.depth, <<>>, r.ref,
                       [unit.slots EXCEPT ![idx] = <<>>])

\* downgradeToCompressedTable(t.hashPath, t.entries())
TDowngrade ==
    /\ HoldsSparse
    /\ unit.call # "downgrade"
    /\ LET r == downgradeToCompressedTable(heap, hashcode(heap, unit.table),
                    compressedTable_entries(heap, unit.table))
       IN TableOutcome(r.heap, "downgrade", 0, unit.depth, <<>>, r.ref,
                       unit.slots)

\* the table is dropped
TDrop ==
    /\ unit.table # NIL
    /\ TableOutcome(heap, "none", 0, 0, <<>>, NIL, NoSlots)

NextTable ==
    \/ \E k \in NodeKeys : TNew(k)
    \/ \E a \in TwoLeafArgs : TNew2(a[1], a[2], a[3])
    \/ \E i \in TableSlots, k \in NodeKeys : TSet(i, k)
    \/ \E i \in TableSlots : TClear(i)
    \/ TDowngrade
    \/ TDrop

SpecTable == InitTable /\ [][NextTable]_vars

\* C23: layout of the sparse table.  After every sequence of set(i, node)
\* and set(i, nil) on a sparse table, the table returned has as many nodes
\* as its nodeMap has bits, bit i of the nodeMap is set iff the slot i is
\* occupied, get(i) returns the node most recently set for i, found at
\* the position that is the number of set bits below i, and nil for an
\* unoccupied slot; and set(i, nil) on an unoccupied slot returns the table
\* it was called on.
C23_SparseLayout ==
    /\ HoldsSparse =>
          LET t == heap[unit.table]
          IN /\ Len(t.nodes) = bitCount32(t.nodeMap)
             /\ \A i \in AllSlots :
                   /\ (i \in t.nodeMap) = (unit.slots[i] # <<>>)
                   /\ Graph(heap, compressedTable_get(heap, unit.table, i))
                         = unit.slots[i]
                   /\ i \in t.nodeMap =>
                         compressedTable_get(heap, unit.table, i) =
                            t.nodes[Cardinality({j \in t.nodeMap : j < i}) + 1]
                   /\ i \notin t.nodeMap =>
                         compressedTable_get(heap, unit.table, i) = NIL
    /\ (/\ unit.call = "clear"
        /\ unit.idx \notin heap[unit.before].nodeMap)
       => unit.table = unit.before

\* the table has three or more children, slot 0 among them, and the last
\* call was set(i, nil) on an unoccupied slot
C23_Witness ==
    /\ HoldsSparse
    /\ unit.call = "clear"
    /\ unit.idx \notin heap[unit.before].nodeMap
    /\ bitCount32(heap[unit.table].nodeMap) >= 3
    /\ unit.slots[0] # <<>>

\* C24: entries() of a sparse table lists one (slot, child) pair for every
\* occupied slot and no other, in strictly ascending order of the slots,
\* with the child that get(slot) returns; and the sparse table that
\* downgradeToCompressedTable builds from this list returns from get(slot)
\* the listed child for every listed slot and nil for every other slot.
C24_Entries ==
    /\ HoldsSparse =>
          LET ents == compressedTable_entries(heap, unit.table)
          IN /\ Len(ents) = Cardinality(heap[unit.table].nodeMap)
             /\ {ents[n].idx : n \in 1..Len(ents)} = heap[unit.table].nodeMap
             /\ \A n, m \in 1..Len(ents) : n < m => ents[n].idx < ents[m].idx
             /\ \A n \in 1..Len(ents) :
                   /\ ents[n].node # NIL
                   /\ ents[n].node =
                        compressedTable_get(heap, unit.table, ents[n].idx)
    /\ unit.call = "downgrade" =>
          LET ents == compressedTable_entries(heap, unit.before)
          IN /\ HoldsSparse
             /\ \A n \in 1..Len(ents) :
                   compressedTable_get(heap, unit.table, ents[n].idx)
                      = ents[n].node
             /\ \A i \in AllSlots :
                   (\A n \in 1..Len(ents) : ents[n].idx # i)
                   => compressedTable_get(heap, unit.table, i) = NIL

\* a table with three or more children was rebuilt from its entries
C24_Witness ==
    /\ unit.call = "downgrade"
    /\ HoldsSparse
    /\ unit.table # unit.before
    /\ Len(compressedTable_entries(heap, unit.before)) >= 3

\* ------------------------------------------------------------------------
\* The descent that Put, Get and Del share
\* ------------------------------------------------------------------------
\* where the loop over the depths ends for the hashcode h30: the table it
\* is in, the depth, and the node found there (nil, or a leaf, or, when
\* the loop runs out past MAXDEPTH, the table it would go on with)
RECURSIVE Descend_loop(_, _, _, _)
Descend_loop(hp, h30, depth, curTable) ==
    IF depth > MAXDEPTH
    THEN [table |-> NIL, depth |-> depth, node |-> curTable]
    ELSE LET curNode == table_get(hp, curTable, index(h30, depth))
         IN IF curNode = NIL \/ IsLeaf(hp, curNode)
            THEN [table |-> curTable, depth |-> depth, node |-> curNode]
            ELSE Descend_loop(hp, h30, depth + 1, curNode)

Descend(hp, h, h30) ==
    IF IsEmpty(h) THEN [table |-> NIL, depth |-> 0, node |-> NIL]
    ELSE Descend_loop(hp, h30, 0, h.root)

\* Put(k) on h takes the case that builds a subtree for two leaves: the
\* descent ends at a leaf with another hashcode
TwoLeafCase(hp, h, k) ==
    LET e == Descend(hp, h, Hash30(k))
    IN /\ e.node # NIL
       /\ e.depth <= MAXDEPTH
       /\ IsLeaf(hp, e.node)
       /\ hashcode(hp, e.node) # Hash30(k)

\* the subtree t for depth d: one-child tables while the indices of h1 and
\* h2 are equal, then the table with leaf1 and a flat leaf (k2, v2) in
\* ascending order of their slots
RECURSIVE TwoLeafChain(_, _, _, _, _, _, _)
TwoLeafChain(hp, t, d, h2, leaf1, k2, v2) ==
    LET idx1 == index(hashcode(hp, leaf1), d)
        idx2 == index(h2, d)
    IN /\ d <= MAXDEPTH
       /\ t # NIL
       /\ hp[t].kind = "compressedTable"
       /\ IF idx1 = idx2
          THEN /\ hp[t].nodeMap = {idx1}
               /\ Len(hp[t].nodes) = 1
               /\ TwoLeafChain(hp, hp[t].nodes[1], d + 1, h2, leaf1, k2, v2)
          ELSE /\ hp[t].nodeMap = {idx1, idx2}
               /\ Len(hp[t].nodes) = 2
               /\ LET lo == hp[t].nodes[1]
                      hi == hp[t].nodes[2]
                      l2 == IF idx1 < idx2 THEN hi ELSE lo
                  IN /\ (IF idx1 < idx2 THEN lo ELSE hi) = leaf1
                     /\ hp[l2].kind = "flatLeaf"
                     /\ hp[l2].hash = h2
                     /\ hp[l2].kvs = <<[key |-> k2, val |-> v2]>>

\* C25: two-leaf subtree.  When Put(k2, v2) finds in k2's slot a leaf whose
\* full hash differs from k2's (the indices of the two agree at every
\* depth above), the returned map holds in that slot a chain of one-child
\* tables, one for each depth from the next on at which the two indices
\* are equal, ending at the first depth where they differ in a table with
\* the two leaves in ascending slot order; k2 and the keys of the leaf
\* found are retrievable by Get; the map is one entry larger, and two
\* entries larger than the map before the Put that stored the leaf found,
\* when that Put was the call before.
C25_TwoLeaf ==
    [][ (last'.op = "Put" /\ TwoLeafCase(heap, hamt, last'.key)) =>
          LET k2 == last'.key
              h2 == Hash30(k2)
              e  == Descend(heap', prev', h2)
              n  == Descend(heap', hamt', h2)
              t  == PathFrom(heap', hamt'.root, h2, 0)
          IN /\ last'.ok
             /\ \E p \in t :
                   /\ p.depth = e.depth
                   /\ TwoLeafChain(heap',
                                   table_get(heap', p.table, index(h2, e.depth)),
                                   e.depth + 1, h2, e.node, k2, last'.val)
             /\ Get(heap', hamt', k2) = [val |-> last'.val, found |-> TRUE]
             /\ \A k1 \in LeafKeys(heap', e.node) :
                   /\ Get(heap', hamt', k1).found
                   /\ Get(heap', hamt', k1) = Get(heap', prev', k1)
             /\ hamt'.nentries = hamt.nentries + 1
             /\ (/\ last.op = "Put"
                 /\ last.ok
                 /\ ~Found(heap, prev, last.key)
                 /\ heap'[e.node].kind = "flatLeaf"
                 /\ last.key \in LeafKeys(heap', e.node))
                => hamt'.nentries = prev.nentries + 2 ]_vars

\* a Put built the chain down to MAXDEPTH for two keys that differ only
\* there, right after the Put of the first of them
C25_Witness ==
    /\ last.op = "Put"
    /\ last.ok
    /\ TwoLeafCase(heap, prev, last.key)
    /\ Descend(heap, hamt, Hash30(last.key)).depth = MAXDEPTH
    /\ Descend(heap, prev, Hash30(last.key)).depth = 0
    /\ hamt.nentries = 2

\* the tables at and below the table t of depth d, each with its depth
RECURSIVE DepthsUnder(_, _, _)
DepthsUnder(hp, t, d) ==
    {[table |-> t, depth |-> d]}
    \cup UNION {DepthsUnder(hp, hp[t].nodes[n], d + 1) :
                  n \in {m \in 1..Len(hp[t].nodes) :
                           hp[t].nodes[m] # NIL /\ IsTable(hp, hp[t].nodes[m])}}

\* C26: equal full hashes in the two-leaf construction.  The subtree that
\* newCompressedTable2 returns for two flat leaves with distinct keys and
\* equal full hashes holds a collision leaf with both pairs in the slot of
\* that hash in a table at depth MAXDEPTH, and has no table without
\* children and no table deeper than MAXDEPTH.
C26_EqualHashTwoLeaf ==
    (/\ unit.call = "new2"
     /\ unit.keys[1] # unit.keys[2]
     /\ Hash30(unit.keys[1]) = Hash30(unit.keys[2]))
    => LET h30  == Hash30(unit.keys[1])
           tabs == DepthsUnder(heap, unit.table, unit.depth)
       IN /\ \E p \in tabs :
                /\ p.depth = MAXDEPTH
                /\ LET l == table_get(heap, p.table, index(h30, MAXDEPTH))
                   IN /\ l # NIL
                      /\ heap[l].kind = "collisionLeaf"
                      /\ heap[l].hash = h30
                      /\ heap[l].kvs = <<[key |-> unit.keys[1], val |-> 1],
                                         [key |-> unit.keys[2], val |-> 2]>>
          /\ \A p \in tabs :
                /\ p.depth <= MAXDEPTH
                /\ NumChildren(heap, p.table) >= 1

\* C27: depth bound.  In the held map and in the map the last call was
\* applied to, no table lies deeper than MAXDEPTH and every child of a
\* table at depth MAXDEPTH is a leaf; so the loop of Put, Get and Del ends
\* for every key at a depth of at most MAXDEPTH (within MAXDEPTH + 1
\* levels), and a Put never falls through the loop, which would return the
\* map it was applied to with inserted = false.
C27_DepthBound ==
    /\ \A h \in {hamt, prev} :
          ~IsEmpty(h) =>
             \A p \in DepthsUnder(heap, h.root, 0) :
                /\ p.depth <= MAXDEPTH
                /\ p.depth = MAXDEPTH =>
                      \A n \in 1..Len(heap[p.table].nodes) :
                         heap[p.table].nodes[n] = NIL
                            \/ IsLeaf(heap, heap[p.table].nodes[n])
          /\ \A k \in Keys : Descend(heap, h, Hash30(k)).depth <= MAXDEPTH
    /\ (last.op = "Put" /\ last.ok) =>
          /\ Descend(heap, prev, Hash30(last.key)).depth <= MAXDEPTH
          /\ ~(hamt.root = prev.root /\ ~IsEmpty(prev) /\ ~last.flag)

\* a Put or Del that ended its loop at depth MAXDEPTH, in a map with a
\* table there
C27_Witness ==
    /\ last.op \in {"Put", "Del"}
    /\ last.ok
    /\ ~IsEmpty(prev)
    /\ Descend(heap, prev, Hash30(last.key)).depth = MAXDEPTH
    /\ \E p \in DepthsUnder(heap, prev.root, 0) : p.depth = MAXDEPTH

\* ------------------------------------------------------------------------
\* Properties of the calls taken step by step (SpecConc)
\* ------------------------------------------------------------------------
\* the path recorder of the call l holds the ancestors of the table t, the
\* root first and the parent of t last, along the indices of the key
IsAncestry(hp, l, t) ==
    LET h30 == Hash30(l.key)
        n   == Len(l.path)
    IN /\ n <= MAXDEPTH + 1
       /\ IF n = 0 THEN t = l.in.root
          ELSE /\ l.path[1] = l.in.root
               /\ \A m \in 1..(n - 1) :
                     table_get(hp, l.path[m], index(h30, m - 1)) = l.path[m + 1]
               /\ table_get(hp, l.path[n], index(h30, n - 1)) = t

\* the call l is in copyUp(oldTable, newTable, path)
CopyUpHolds(hp, l) ==
    LET h30 == Hash30(l.key)
        d   == Len(l.path)
    IN /\ IsAncestry(hp, l, l.oldTable)
       /\ d > 0 =>
             /\ index(hashcode(hp, l.oldTable), d - 1) = index(h30, d - 1)
             /\ table_get(hp, path_peek(l.path),
                          index(hashcode(hp, l.oldTable), d - 1)) = l.oldTable
       /\ \A i \in AllSlots :
             i # index(h30, d)
             => IF l.newTable = NIL
                THEN table_get(hp, l.oldTable, i) = NIL
                ELSE table_get(hp, l.newTable, i) = table_get(hp, l.oldTable, i)

\* C28: copy-up targets the slot of the descent.  When Put or Del calls
\* copyUp for the table at depth d, and at every level copyUp goes up, the
\* path recorder holds exactly the ancestors of the old table, deepest
\* last and never more than MAXDEPTH + 1; the slot copyUp computes from the
\* old table's hashPath is the slot through which the descent entered it,
\* which is where the parent holds it; and the table that replaces a table
\* of the path has the new child in that slot and in every other slot the
\* child the old table has.
C28_CopyUpSlot ==
    [][ \A p \in Procs :
          /\ procs'[p].pc = "copyUp" =>
                /\ CopyUpHolds(heap', procs'[p])
                /\ procs[p].pc = "loop" => Len(procs'[p].path) = procs'[p].depth
          /\ (/\ procs[p].pc = "copyUp"
              /\ procs'[p].pc = "copyUp"
              /\ Len(procs'[p].path) = Len(procs[p].path) - 1
              /\ procs'[p].newTable # NIL)
             => Graph(heap', table_get(heap', procs'[p].newTable,
                                       index(Hash30(procs[p].key),
                                             Len(procs'[p].path))))
                  = Graph(heap, procs[p].newTable) ]_vars

\* a call has copied up one or more levels and has two or more to go
C28_Witness ==
    \E p \in Procs :
        /\ procs[p].pc = "copyUp"
        /\ Len(procs[p].path) >= 2
        /\ Len(procs[p].path) < procs[p].depth
        /\ procs[p].newTable # NIL

\* ------------------------------------------------------------------------
\* Properties of the width-5 program, continued
\* ------------------------------------------------------------------------

\* C29: emptiness agrees with size.  In every map reachable by Put and Del,
\* IsEmpty (the root is nil) holds iff nentries is 0 iff Get reports every
\* key as absent; and the empty map has all three.
C29_EmptyIffSizeZero ==
    /\ IsEmpty(hamt) <=> hamt.nentries = 0
    /\ hamt.nentries = 0 <=> \A k \in Keys : ~Found(heap, hamt, k)
    /\ IsEmpty(EMPTY)
    /\ EMPTY.nentries = 0
    /\ \A k \in Keys : ~Found(heap, EMPTY, k)

\* ------------------------------------------------------------------------
\* The program that calls the hash arithmetic: index of the 32-bit variant
\* on hashcodes of 30 bits and index of the 64-bit variant on hashcodes of
\* 60 bits, at every depth.  unit holds the call and what it returned.
\* ------------------------------------------------------------------------
\* 30-bit hashcodes: every index 0 or 31, and one index of 1, 14, 16 or 17
\* among indices that are all 0 or all 31
Hashes30 ==
    {PathToHash(p) : p \in [1..(MAXDEPTH + 1) -> {0, TABLE_CAPACITY - 1}]}
    \cup {PathToHash([n \in 1..(MAXDEPTH + 1) |-> IF n = m THEN v ELSE w]) :
            m \in 1..(MAXDEPTH + 1), v \in {1, 14, 16, 17},
            w \in {0, TABLE_CAPACITY - 1}}

\* the word with the given five indices of six bits, lowest first
RECURSIVE PathToWord(_)
PathToWord(p) ==
    IF p = <<>> THEN 0 ELSE Head(p) + 2^NBITS * PathToWord(Tail(p))

Words ==
    {PathToWord(p) : p \in {<<0, 0, 0, 0, 0>>, <<63, 63, 63, 63, 63>>,
                            <<63, 0, 0, 0, 0>>, <<0, 0, 0, 0, 63>>,
                            <<33, 0, 0, 0, 1>>, <<1, 0, 32, 0, 33>>,
                            <<0, 63, 0, 63, 0>>, <<32, 1, 63, 1, 32>>}}

\* 60-bit hashcodes
Hashes60 == {U60(hi, lo) : hi \in Words, lo \in Words}

\* hashcodes of 30 bits cut to the indices of their first d levels, d from 0
\* to all six: the prefixes that tables carry, and hashcodes with indices
\* left above those levels
Prefixes30 ==
    {BitAnd(PathToHash(p), hashPathMask(d)) :
        p \in {<<31, 31, 31, 31, 31, 31>>, <<1, 14, 16, 17, 0, 31>>,
               <<17, 0, 31, 1, 16, 14>>},
        d \in 0..(MAXDEPTH + 1)}

\* the same for hashcodes of 60 bits and levels of six bits
Prefixes60 ==
    {Shr60(Shl60(h, 60 - d * NBITS), 60 - d * NBITS) :
        h \in {U60(WORD - 1, WORD - 1),
               U60(PathToWord(<<1, 0, 32, 0, 33>>),
                   PathToWord(<<32, 1, 63, 1, 32>>))},
        d \in 0..(MAXDEPTH64 + 1)}

\* unit is here the tuple <<call, hashcode, depth, result>>, followed for
\* buildHashPath by the index passed and by whether the call panicked; for
\* HashPathMatches the path string stands in the place of the depth
NoBits == <<"none", 0, 0, 0>>

InitBits ==
    /\ GradeTables = TRUE
    /\ heap = <<>>
    /\ hamt = EMPTY
    /\ prev = EMPTY
    /\ last = NoCall
    /\ nops = 0
    /\ puts = NoPuts
    /\ pub = <<>>
    /\ procs = <<>>
    /\ unit = NoBits

BitsCall == unit[1]

BitsHash == unit[2]

BitsDepth == unit[3]

BitsResult == unit[4]

BitsOutcome(u) ==
    /\ unit' = u
    /\ UNCHANGED <<GradeTables, heap, hamt, prev, last, nops, puts, pub, procs>>

\* index(h30, depth) of the 32-bit variant
DoIndex(h30, depth) ==
    BitsOutcome(<<"index", h30, depth, index(h30, depth)>>)

\* index(hash, depth) of the 64-bit variant
DoIndex64(hash, depth) ==
    BitsOutcome(<<"index64", hash, depth, index60(hash, depth)>>)

BitsIdx == unit[5]

BitsPanic == unit[6]

\* buildHashPath(hashPath, idx, depth) of the 32-bit variant
DoBuildHashPath(hashPath, idx, depth) ==
    BitsOutcome(<<"buildHashPath", hashPath, depth,
                  buildHashPath(hashPath, idx, depth), idx, FALSE>>)

\* buildHashPath(hashPath, depth, idx) of the 64-bit variant
DoBuildHashPath64(hashPath, depth, idx) ==
    IF buildHashPath64_panics(hashPath, depth)
    THEN BitsOutcome(<<"buildHashPath64", hashPath, depth, U60(0, 0), idx,
                       TRUE>>)
    ELSE BitsOutcome(<<"buildHashPath64", hashPath, depth,
                       buildHashPath64(hashPath, depth, idx), idx, FALSE>>)

\* Strings are sequences of characters.
Digit == <<"0", "1", "2", "3", "4", "5", "6", "7", "8", "9">>

\* fmt.Sprintf("%02d", idx) for idx below 100
Sprintf02d(idx) == <<Digit[(idx \div 10) + 1], Digit[(idx % 10) + 1]>>

\* strings.Join(strs, sep)
RECURSIVE Join(_, _)
Join(strs, sep) ==
    IF strs = <<>> THEN <<>>
    ELSE IF Len(strs) = 1 THEN strs[1]
    ELSE strs[1] \o sep \o Join(Tail(strs), sep)

\* "/" at depth 0, else "/" and the two-digit indices of depths 0..depth
\* joined by "/", the index of depth d at position d
hashPathString(hashPath, depth) ==
    IF depth = 0 THEN <<"/">>
    ELSE LET strs == [d \in 1..(depth + 1) |->
                        Sprintf02d(index(hashPath, d - 1))]
         IN  <<"/">> \o Join(strs, <<"/">>)

Hash30String(h30) == hashPathString(h30, MAXDEPTH)

\* strings.HasPrefix(s, c) and strings.HasSuffix(s, c) for one character c
HasPrefix(s, c) == Len(s) > 0 /\ s[1] = c

HasSuffix(s, c) == Len(s) > 0 /\ s[Len(s)] = c

\* strings.Split(s, c) for one character c: the pieces between the c's
RECURSIVE Split(_, _)
Split(s, c) ==
    IF \A n \in 1..Len(s) : s[n] # c THEN <<s>>
    ELSE LET n == CHOOSE m \in 1..Len(s) :
                    s[m] = c /\ \A j \in 1..(m - 1) : s[j] # c
         IN  <<SubSeq(s, 1, n - 1)>> \o Split(SubSeq(s, n + 1, Len(s)), c)

\* strconv.ParseInt(s, 10, 32) of a string without sign: it fails on the
\* empty string and on any character that is no decimal digit
ParseInt_err(s) ==
    s = <<>> \/ \E n \in 1..Len(s) : \A v \in 1..10 : Digit[v] # s[n]

RECURSIVE ParseInt(_)
ParseInt(s) ==
    IF s = <<>> THEN 0
    ELSE 10 * ParseInt(SubSeq(s, 1, Len(s) - 1))
         + (CHOOSE v \in 0..9 : Digit[v + 1] = s[Len(s)])

\* The loop of HashPathMatches from element i of strs on, with the bitStr
\* built so far: <<FALSE, _>> when an element fails to parse or exceeds 31,
\* else <<TRUE, bitStr>>.  Element i is shifted by (NBITS32 - uint(i)) *
\* NBITS32, at most 25 bits for an n of at most 31, which the uint32
\* holds; past i = NBITS32 the uint difference wraps and the shift clears
\* the uint32.
RECURSIVE HashPathMatches_loop(_, _, _)
HashPathMatches_loop(strs, i, bitStr) ==
    IF i >= Len(strs) THEN <<TRUE, bitStr>>
    ELSE IF ParseInt_err(strs[i + 1]) THEN <<FALSE, bitStr>>
    ELSE LET n == ParseInt(strs[i + 1]) IN
         IF n > 31 THEN <<FALSE, bitStr>>
         ELSE HashPathMatches_loop(strs, i + 1,
                 BitOr(bitStr,
                       IF i > NBITS32 THEN 0
                       ELSE n * 2^((NBITS32 - i) * NBITS32)))

HashPathMatches(hashPath, hashPathStr) ==
    IF ~HasPrefix(hashPathStr, "/") THEN FALSE
    ELSE IF HasSuffix(hashPathStr, "/") THEN FALSE
    ELSE LET strs == Tail(Split(hashPathStr, "/"))
             r    == HashPathMatches_loop(strs, 0, 0)
         IN  IF ~r[1] THEN FALSE
             ELSE BitAnd(hashPath, r[2]) = r[2]

\* hashcodes whose six indices read the same in both directions, and
\* hashcodes whose indices do not
MatchHashes ==
    {PathToHash(p) : p \in {<<0, 0, 0, 0, 0, 0>>, <<31, 31, 31, 31, 31, 31>>,
                            <<5, 9, 2, 2, 9, 5>>, <<1, 0, 0, 0, 0, 0>>,
                            <<3, 7, 1, 1, 1, 1>>, <<1, 14, 16, 17, 0, 31>>,
                            <<31, 31, 31, 0, 0, 0>>, <<0, 0, 0, 0, 0, 17>>}}

\* the path strings of those hashcodes, whole and cut at depths 0 and 2
MatchStrings ==
    {hashPathString(h, d) : h \in MatchHashes, d \in {0, 2, MAXDEPTH}}

BitsStr == unit[3]

\* HashPathMatches(hashPath, hashPathStr)
DoHashPathMatches(hashPath, hashPathStr) ==
    BitsOutcome(<<"HashPathMatches", hashPath, hashPathStr,
                  HashPathMatches(hashPath, hashPathStr)>>)

NextBits ==
    \/ \E h30 \in Hashes30, depth \in 0..MAXDEPTH : DoIndex(h30, depth)
    \/ \E hash \in Hashes60, depth \in 0..MAXDEPTH64 : DoIndex64(hash, depth)
    \/ \E hashPath \in Prefixes30, idx \in {0, 1, 17, TABLE_CAPACITY - 1},
          depth \in 0..MAXDEPTH :
          DoBuildHashPath(hashPath, idx, depth)
    \/ \E hashPath \in Prefixes60, depth \in 0..MAXDEPTH64,
          idx \in {0, 1, 33, 2^NBITS - 1} :
          DoBuildHashPath64(hashPath, depth, idx)
    \/ \E hashPath \in MatchHashes, hashPathStr \in MatchStrings :
          DoHashPathMatches(hashPath, hashPathStr)

SpecBits == InitBits /\ [][NextBits]_vars

\* C30: index extraction.  For a hashcode h of HASH_WIDTH bits and a depth
\* d in 0..MAXDEPTH, index(h, d) is (h >> (d * bits per level)) & (FANOUT -
\* 1) and lies in 0..FANOUT-1, in the 32-bit variant (5 bits, 30-bit
\* hashcodes) and in the 64-bit variant (6 bits, 60-bit hashcodes); and two
\* hashcodes are equal iff their indices agree at every depth 0..MAXDEPTH.
C30_Index ==
    /\ BitsCall = "index" =>
          /\ BitsResult = BitAnd(BitsHash \div 2^(BitsDepth * NBITS32),
                               TABLE_CAPACITY - 1)
          /\ BitsResult \in 0..(TABLE_CAPACITY - 1)
          /\ \A h2 \in Hashes30 :
                (h2 = BitsHash) <=>
                   \A d \in 0..MAXDEPTH : index(h2, d) = index(BitsHash, d)
    /\ BitsCall = "index64" =>
          /\ BitsResult = And60(Shr60(BitsHash, BitsDepth * NBITS),
                              U60(0, 2^NBITS - 1))
          /\ Hi(BitsResult) = 0
          /\ Lo(BitsResult) \in 0..(2^NBITS - 1)
          /\ \A h2 \in Hashes60 :
                (h2 = BitsHash) <=>
                   \A d \in 0..MAXDEPTH64 :
                      index60(h2, d) = index60(BitsHash, d)

\* index of the 64-bit variant was taken at the deepest level, above bit
\* 32, of a hashcode with bits set below and in that index
C30_Witness ==
    /\ BitsCall = "index64"
    /\ BitsDepth = MAXDEPTH64
    /\ BitsResult = U60(0, 33)
    /\ Lo(BitsHash) # 0

\* a | b on words of 60 bits
Or60(a, b) == U60(BitOr(Hi(a), Hi(b)), BitOr(Lo(a), Lo(b)))

\* the prefix has no bit at or above bit depth * (bits per level)
ValidPrefix30(p, depth) == p \div 2^(depth * NBITS32) = 0

ValidPrefix60(p, depth) == Shr60(p, depth * NBITS) = U60(0, 0)

\* C31: hash-path build.  For a prefix p valid at depth d (no bit at or
\* above bit d * bits per level) and a slot index i below the fan-out,
\* buildHashPath returns p | (i << (d * bits per level)), so the index of
\* the result at depth d is i and its index at every depth below d is that
\* of p; in the 32-bit variant and in the 64-bit variant.
C31_BuildHashPath ==
    /\ (BitsCall = "buildHashPath" /\ ValidPrefix30(BitsHash, BitsDepth)) =>
          /\ ~BitsPanic
          /\ BitsResult = BitOr(BitsHash, BitsIdx * 2^(BitsDepth * NBITS32))
          /\ index(BitsResult, BitsDepth) = BitsIdx
          /\ \A d \in 0..(BitsDepth - 1) :
                index(BitsResult, d) = index(BitsHash, d)
    /\ (BitsCall = "buildHashPath64" /\ ValidPrefix60(BitsHash, BitsDepth)) =>
          /\ ~BitsPanic
          /\ BitsResult = Or60(BitsHash,
                              Shl60(U60(0, BitsIdx), BitsDepth * NBITS))
          /\ index60(BitsResult, BitsDepth) = U60(0, BitsIdx)
          /\ \A d \in 0..(BitsDepth - 1) :
                index60(BitsResult, d) = index60(BitsHash, d)

\* C32: path-string round trip.  For every hashcode h of 30 bits
\* HashPathMatches(h, Hash30String(h)) is true: the matcher reads the string
\* "/i0/i1/.../i5" in the depth order in which hashPathString writes it, the
\* element at position d being the index at depth d.
C32_PathStringRoundTrip ==
    (BitsCall = "HashPathMatches" /\ BitsStr = Hash30String(BitsHash)) =>
        BitsResult = TRUE

====
